---------------------------- MODULE Spec2Model ----------------------------
(***************************************************************************)
(* LudoPals: the shared rules engine (ludoRules), the game state manager   *)
(* (gameStateManager) and the socket handlers of the backend (server.js).  *)
(*                                                                         *)
(* Two machines share this module.  The server machine is one room of      *)
(* server.js driven by socket events; the manager machine is a game state  *)
(* threaded through handleDiceRoll / handlePieceMove / handleAIPlayerTurn. *)
(***************************************************************************)
EXTENDS Integers, Sequences, FiniteSets, TLC

(***************************************************************************)
(* Bounds of the model (not program constants).                            *)
(***************************************************************************)
\* accepted rolls explored from each started two-player room
MaxPlayRolls == 2
\* accepted rolls explored in a room that also sees joins and disconnects
MaxRoomRolls == 1
\* turn calls that return (do not throw) explored from each drawn game state
MaxCalls == 2
\* socket connections that may be opened during one behaviour
NumSockets == 2
\* players created through POST /api/rooms/:roomId/join
MaxHttpJoins == 1
\* periods of the cleanup interval that the clock runs through
MaxClock == 5
\* calls of checkWinCondition and selectAIMove explored on each drawn game
MaxFnCalls == 1

(***************************************************************************)
(* GAME_CONSTANTS and the board layout (ludoRules).                        *)
(***************************************************************************)
BOARD_SIZE == 52
HOME_POSITION == -1
FINISH_START == 52
FINISH_END == 57
PIECES_PER_PLAYER == 4
MAX_PLAYERS == 4
MIN_PLAYERS == 2
DICE_MIN == 1
DICE_MAX == 6

PLAYER_COLORS == <<"red", "blue", "green", "yellow">>

PLAYER_START_POSITIONS ==
  [c \in {"red", "blue", "green", "yellow"} |->
     CASE c = "red" -> 0 [] c = "blue" -> 13 [] c = "green" -> 26 [] c = "yellow" -> 39]

SAFE_POSITIONS == {0, 8, 13, 21, 26, 34, 39, 47}

HOME_ENTRY_POSITIONS ==
  [c \in {"red", "blue", "green", "yellow"} |->
     CASE c = "red" -> 51 [] c = "blue" -> 12 [] c = "green" -> 25 [] c = "yellow" -> 38]

\* JavaScript's undefined / null, as they occur in the handlers
Undefined == "undefined"
Null == "null"
\* lastDiceRoll = null
NoRoll == [playerId |-> Null, value |-> 0]

\* the diceValue values a caller passes with a move: the value of the pending
\* roll (0 when there is none) and a value that differs from it
DicePayloads(lastDiceRoll) == {lastDiceRoll.value, (lastDiceRoll.value % 6) + 1}

Dice == DICE_MIN..DICE_MAX

getStartPosition(color) == PLAYER_START_POSITIONS[color]

isSafePosition(position) == position \in SAFE_POSITIONS

\* ids of pieces are `${player.id}_piece_${i}`: the pair <<player id, i>>
PieceId(piece) == <<piece.playerId, piece.pieceNumber>>

(***************************************************************************)
(* getNextPosition(currentPosition, steps, playerColor)                    *)
(***************************************************************************)
getNextPosition(currentPosition, steps, playerColor) ==
  IF currentPosition = HOME_POSITION
  THEN IF steps = 6 THEN getStartPosition(playerColor) ELSE HOME_POSITION
  ELSE IF currentPosition >= FINISH_START
  THEN IF currentPosition + steps <= FINISH_END
       THEN currentPosition + steps ELSE currentPosition
  ELSE LET startPos == getStartPosition(playerColor)
           totalSteps == IF currentPosition >= startPos
                         THEN currentPosition - startPos
                         ELSE (BOARD_SIZE - startPos) + currentPosition
           newTotalSteps == totalSteps + steps
       IN IF newTotalSteps >= BOARD_SIZE - 1
          THEN FINISH_START + (newTotalSteps - (BOARD_SIZE - 1))
          ELSE IF currentPosition + steps >= BOARD_SIZE
               THEN currentPosition + steps - BOARD_SIZE
               ELSE currentPosition + steps

(***************************************************************************)
(* isValidMove(piece, steps, gameState, playerColor)                       *)
(***************************************************************************)
isValidMove(piece, steps, gameState, playerColor) ==
  LET newPosition == getNextPosition(piece.position, steps, playerColor)
  IN /\ ~(piece.position = HOME_POSITION /\ steps # 6)
     /\ newPosition # piece.position
     /\ ~\E i \in DOMAIN gameState.pieces :
           /\ gameState.pieces[i].position = newPosition
           /\ gameState.pieces[i].playerColor = playerColor
           /\ PieceId(gameState.pieces[i]) # PieceId(piece)

(***************************************************************************)
(* getPiecesCutByMove: the indices of the pieces cut by a move             *)
(***************************************************************************)
\* getPiecesCutByMove without its two early returns (safe position, finish
\* area): the variant C8 is checked against
getPiecesCutByMoveAnywhere(newPosition, movingPlayerColor, gameState) ==
  {i \in DOMAIN gameState.pieces :
     /\ gameState.pieces[i].position = newPosition
     /\ gameState.pieces[i].playerColor # movingPlayerColor}

\* a move that sends nothing Home: the variant C38 is checked against
getPiecesCutByMoveNothing(newPosition, movingPlayerColor, gameState) == {}

getPiecesCutByMove(newPosition, movingPlayerColor, gameState) ==
  IF isSafePosition(newPosition) THEN {}
  ELSE IF newPosition >= FINISH_START THEN {}
  ELSE {i \in DOMAIN gameState.pieces :
          /\ gameState.pieces[i].position = newPosition
          /\ gameState.pieces[i].playerColor # movingPlayerColor}

\* Array.prototype.findIndex: the first index that matches, 0 when none does
PlayerIndexById(players_, playerId) ==
  LET S == {i \in DOMAIN players_ : players_[i].id = playerId}
  IN IF S = {} THEN 0 ELSE CHOOSE i \in S : \A j \in S : i <= j

PieceIndexById(pieces_, pieceId) ==
  LET S == {i \in DOMAIN pieces_ : PieceId(pieces_[i]) = pieceId}
  IN IF S = {} THEN 0 ELSE CHOOSE i \in S : \A j \in S : i <= j

(***************************************************************************)
(* executeMove(gameState, playerId, pieceId, steps): either throws         *)
(* (ok = FALSE) or returns the new game state and the cut pieces.          *)
(***************************************************************************)
executeMoveError(gameState, playerId, pieceId, steps) ==
  LET pieceIndex  == PieceIndexById(gameState.pieces, pieceId)
      playerIndex == PlayerIndexById(gameState.players, playerId)
  IN IF pieceIndex = 0 THEN "Piece not found"
     ELSE IF playerIndex = 0 THEN "Player not found"
     ELSE IF ~isValidMove(gameState.pieces[pieceIndex], steps, gameState,
                          gameState.players[playerIndex].color)
     THEN "Invalid move"
     ELSE "none"

executeMove(gameState, playerId, pieceId, steps) ==
  LET pieceIndex  == PieceIndexById(gameState.pieces, pieceId)
      player      == gameState.players[PlayerIndexById(gameState.players, playerId)]
      piece       == gameState.pieces[pieceIndex]
      newPosition == getNextPosition(piece.position, steps, player.color)
      cutPieces   == getPiecesCutByMove(newPosition, player.color, gameState)
      newPieces   == [i \in DOMAIN gameState.pieces |->
                        IF i = pieceIndex
                        THEN [gameState.pieces[i] EXCEPT !.position = newPosition]
                        ELSE IF i \in cutPieces
                        THEN [gameState.pieces[i] EXCEPT !.position = HOME_POSITION]
                        ELSE gameState.pieces[i]]
  IN [gameState |-> [gameState EXCEPT !.pieces = newPieces],
      cutPieces |-> {PieceId(gameState.pieces[i]) : i \in cutPieces},
      movedPiece |-> newPieces[pieceIndex]]

(***************************************************************************)
(* checkWinCondition, getValidMoves, getAnotherTurn, getNextPlayerTurn     *)
(***************************************************************************)
checkWinCondition(gameState, playerId) ==
  \A i \in DOMAIN gameState.pieces :
     gameState.pieces[i].playerId = playerId
        => gameState.pieces[i].position = FINISH_END

\* the valid moves as the set of records the forEach pushes
getValidMoves(gameState, playerId, diceValue) ==
  LET playerIndex == PlayerIndexById(gameState.players, playerId)
  IN IF playerIndex = 0 THEN {}
     ELSE LET color == gameState.players[playerIndex].color
          IN {[pieceId      |-> PieceId(gameState.pieces[i]),
               fromPosition |-> gameState.pieces[i].position,
               toPosition   |-> getNextPosition(gameState.pieces[i].position,
                                                diceValue, color),
               cutPieces    |-> {PieceId(gameState.pieces[j]) :
                                   j \in getPiecesCutByMove(
                                      getNextPosition(gameState.pieces[i].position,
                                                      diceValue, color),
                                      color, gameState)}] :
                i \in {k \in DOMAIN gameState.pieces :
                         /\ gameState.pieces[k].playerId = playerId
                         /\ isValidMove(gameState.pieces[k], diceValue, gameState, color)}}

getAnotherTurn(diceValue, cutPieces) == diceValue = 6 \/ cutPieces # {}

RECURSIVE SkipDisconnected(_, _, _)
SkipDisconnected(nextTurn, attempts, players_) ==
  IF ~players_[nextTurn + 1].connected /\ attempts < Len(players_)
  THEN SkipDisconnected((nextTurn + 1) % Len(players_), attempts + 1, players_)
  ELSE nextTurn

\* currentTurn is the 0-based index of the JavaScript array
getNextPlayerTurn(currentTurn, players_, skipDisconnected) ==
  LET nextTurn == (currentTurn + 1) % Len(players_)
  IN IF skipDisconnected THEN SkipDisconnected(nextTurn, 0, players_) ELSE nextTurn

(***************************************************************************)
(* initializeGamePieces (ludoRules and server.js hold the same code)       *)
(***************************************************************************)
initializeGamePieces(players_) ==
  [k \in 1..(Len(players_) * PIECES_PER_PLAYER) |->
     LET player == players_[((k - 1) \div PIECES_PER_PLAYER) + 1]
     IN [playerId    |-> player.id,
         pieceNumber |-> ((k - 1) % PIECES_PER_PLAYER) + 1,
         playerColor |-> player.color,
         position    |-> HOME_POSITION]]

(***************************************************************************)
(* State.                                                                  *)
(*   game, result, calls : the manager machine: the game state handed from *)
(*     one gameStateManager call to the next, what the last call returned  *)
(*     or threw, and the number of turn calls (handleDiceRoll,             *)
(*     handlePieceMove, handleAIPlayerTurn) that returned.                 *)
(*   players .. rollsLeft : the server machine: one room of gameRooms.     *)
(*     players is room.players, which room.gameStateData.players aliases;  *)
(*     roomGameState is room.gameState; gameStateData holds gamePhase,     *)
(*     pieces, currentTurn, winner, lastDiceRoll; sockets holds, per socket*)
(*     whether it is open and its socket.roomId, socket.playerId; reply    *)
(*     is the last callback (or HTTP response) sent; httpJoins counts the  *)
(*     players POST /join created; rollsLeft bounds the accepted rolls.    *)
(*   aiTurn : the handleAIPlayerTurn call that is waiting on handleAITurn's *)
(*     thinking delay: << >> when there is none, else the state the call   *)
(*     works on (the rolled copy), the roll, and whether that copy still   *)
(*     shares its players array with the caller's state.                   *)
(*   lastActivity : room.lastActivity read against the clock at the end of *)
(*     the latest handler: "now" when that handler assigned it, "earlier"  *)
(*     when it kept the value it found.                                    *)
(*   emitted : the events the latest handler put on the wire, in order,    *)
(*     each with the sockets it went to and the state it carried.          *)
(*   clock : the time, counted in periods of the cleanup interval.         *)
(*   gameRooms : the map of the rooms, by room id: of each room its        *)
(*     lastActivity as a time of the clock.  The content of the room       *)
(*     RoomId is in the variables above; the other room stands for the     *)
(*     rest of the map.                                                    *)
(***************************************************************************)
VARIABLES game, result, calls, aiTurn,
          players, maxPlayers, roomGameState, gameStateData, sockets, reply,
          httpJoins, rollsLeft, lastActivity, emitted, clock, gameRooms

\* aiTurn when no handleAIPlayerTurn call is waiting
AINone == << >>

gsmVars == <<game, result, calls, aiTurn>>
srvVars == <<players, maxPlayers, roomGameState, gameStateData, sockets, reply,
             httpJoins, rollsLeft, lastActivity, emitted, clock, gameRooms>>
vars == <<game, result, calls, aiTurn, players, maxPlayers, roomGameState, gameStateData,
          sockets, reply, httpJoins, rollsLeft, lastActivity, emitted, clock,
          gameRooms>>

(***************************************************************************)
(* aiPlayer.js: the difficulty levels, the move priorities and the         *)
(* evaluation of a move.  A move is the record getValidMoves pushes;       *)
(* willCutPieces is cutPieces # {}.                                        *)
(***************************************************************************)
AI_DIFFICULTY == {"easy", "medium", "hard"}

WIN_GAME == 1000
CUT_OPPONENT == 800
MOVE_TO_SAFETY == 600
ADVANCE_FURTHEST == 400
MOVE_OUT_OF_HOME == 300
BLOCK_OPPONENT == 200
ADVANCE_ANY == 100
DEFAULT == 50

STAR_POSITIONS == {8, 21, 34, 47}
MOVES_TO_WIN == 6

isStarPosition(position) == position \in STAR_POSITIONS

Abs(n) == IF n < 0 THEN -n ELSE n

\* Math.min(...) of a non-empty set of numbers
MinOf(S) == CHOOSE x \in S : \A y \in S : x <= y

\* getDistanceToFinish(piece, playerColor), on the piece's position
getDistanceToFinish(position, playerColor) ==
  IF position = HOME_POSITION THEN BOARD_SIZE + MOVES_TO_WIN
  ELSE IF position >= FINISH_START THEN FINISH_END - position
  ELSE LET startPos == getStartPosition(playerColor)
           distanceOnBoard == IF position >= startPos
                              THEN BOARD_SIZE - (position - startPos)
                              ELSE startPos - position
       IN distanceOnBoard + MOVES_TO_WIN

isPieceInDanger(piece, gameState, playerColor) ==
  IF piece.position = HOME_POSITION \/ piece.position >= FINISH_START THEN FALSE
  ELSE IF isSafePosition(piece.position) THEN FALSE
  ELSE \E i \in DOMAIN gameState.pieces, dice \in 1..6 :
          /\ \E k \in DOMAIN gameState.players :
                /\ gameState.players[k].color # playerColor
                /\ gameState.players[k].color = gameState.pieces[i].playerColor
          /\ getNextPosition(gameState.pieces[i].position, dice,
                             gameState.pieces[i].playerColor) = piece.position

\* the state evaluateMove tries the move on: the piece put on toPosition
MoveTried(move, gameState) ==
  LET k == PieceIndexById(gameState.pieces, move.pieceId)
  IN [gameState EXCEPT !.pieces[k].position = move.toPosition]

\* the HARD case of the switch: the blocking bonus once per opponent piece
\* near its finish and dice value that brings it onto toPosition, and 25 per
\* piece of the same colour within three cells of toPosition
HardAdjustment(move, gameState, playerColor) ==
  LET blocks ==
        {<<i, dice>> \in (DOMAIN gameState.pieces) \X (1..6) :
           /\ gameState.pieces[i].playerColor # playerColor
           /\ getDistanceToFinish(gameState.pieces[i].position,
                                  gameState.pieces[i].playerColor) < 10
           /\ getNextPosition(gameState.pieces[i].position, dice,
                              gameState.pieces[i].playerColor) = move.toPosition
           /\ ~isSafePosition(move.toPosition)}
      nearbyAllies ==
        {i \in DOMAIN gameState.pieces :
           /\ gameState.pieces[i].playerColor = playerColor
           /\ PieceId(gameState.pieces[i]) # move.pieceId
           /\ Abs(gameState.pieces[i].position - move.toPosition) <= 3}
  IN Cardinality(blocks) * BLOCK_OPPONENT + Cardinality(nearbyAllies) * 25

\* evaluateMove(move, gameState, playerId, playerColor, difficulty); jitter
\* is the value `Math.random() * width - width / 2` takes in the easy and
\* medium cases (it is not read in the hard case)
evaluateMove(move, gameState, playerId, playerColor, difficulty, jitter) ==
  LET k == PieceIndexById(gameState.pieces, move.pieceId)
      piece == gameState.pieces[k]
      cut == IF move.cutPieces # {}
             THEN CUT_OPPONENT + (Cardinality(move.cutPieces) - 1) * 100 ELSE 0
      outOfHome == IF move.fromPosition = HOME_POSITION THEN MOVE_OUT_OF_HOME ELSE 0
      safety == IF isSafePosition(move.toPosition)
                THEN MOVE_TO_SAFETY
                     + (IF isPieceInDanger(piece, gameState, playerColor) THEN 200 ELSE 0)
                ELSE 0
      distanceBefore == getDistanceToFinish(move.fromPosition, playerColor)
      distanceAfter == getDistanceToFinish(move.toPosition, playerColor)
      advancement == distanceBefore - distanceAfter
      furthestDistance ==
        MinOf({getDistanceToFinish(gameState.pieces[i].position, playerColor) :
                 i \in {j \in DOMAIN gameState.pieces :
                          gameState.pieces[j].playerColor = playerColor}})
      advance == IF advancement > 0
                 THEN ADVANCE_ANY + advancement * 10
                      + (IF distanceBefore = furthestDistance THEN ADVANCE_FURTHEST ELSE 0)
                 ELSE 0
      star == IF isStarPosition(move.toPosition) THEN 50 ELSE 0
      score == DEFAULT + cut + outOfHome + safety + advance + star
  IN IF k = 0 THEN DEFAULT
     ELSE IF checkWinCondition(MoveTried(move, gameState), playerId) THEN WIN_GAME
     ELSE IF difficulty = "hard"
          THEN score + HardAdjustment(move, gameState, playerColor)
     ELSE score + jitter

(***************************************************************************)
(* selectAIMove(gameState, playerId, diceValue, difficulty).  jitter gives *)
(* for each piece the value Math.random() took when its move was scored,   *)
(* randomIndex the place in the sorted list the function returns: 0, or    *)
(* in the easy case, when Math.random() < 0.3, an index below              *)
(* min(3, length).  The sort is by score, highest first, and keeps the     *)
(* order of the list among equal scores.                                   *)
(***************************************************************************)
\* the value null, where a move is expected
NoMove == [pieceId |-> <<"none", 0>>, fromPosition |-> HOME_POSITION,
           toPosition |-> HOME_POSITION, cutPieces |-> {}]

\* Math.random() * 200 - 100 and Math.random() * 50 - 25, drawn at the two
\* ends of their ranges: the orders of the scores that some draw produces
\* are the orders these draws produce
JitterValues(difficulty) ==
  CASE difficulty = "easy"   -> {-100, 99}
    [] difficulty = "medium" -> {-25, 24}
    [] OTHER                 -> {0}

RandomIndexes(difficulty, length) ==
  IF difficulty = "easy" THEN 0..((IF length < 3 THEN length ELSE 3) - 1) ELSE {0}

selectAIMoveError(gameState, playerId) ==
  IF PlayerIndexById(gameState.players, playerId) = 0 THEN "Player not found" ELSE "none"

MoveScore(move, gameState, playerId, difficulty, jitter) ==
  evaluateMove(move, gameState, playerId,
               gameState.players[PlayerIndexById(gameState.players, playerId)].color,
               difficulty, jitter[move.pieceId])

\* selectAIMove without the return of the only valid move: the variant C24
\* is checked against
selectAIMoveNoSingleMove(gameState, playerId, diceValue, difficulty, jitter, randomIndex) ==
  LET validMoves == getValidMoves(gameState, playerId, diceValue)
  IN IF Cardinality(validMoves) <= 1 THEN NoMove
     ELSE CHOOSE m \in validMoves : TRUE

selectAIMove(gameState, playerId, diceValue, difficulty, jitter, randomIndex) ==
  LET validMoves == getValidMoves(gameState, playerId, diceValue)
      \* evaluatedMoves: the score of each valid move
      score == [m \in validMoves |->
                  MoveScore(m, gameState, playerId, difficulty, jitter)]
      place(m) == PieceIndexById(gameState.pieces, m.pieceId)
      sortsBefore(a, b) == \/ score[a] > score[b]
                           \/ score[a] = score[b] /\ place(a) < place(b)
      index(m) == Cardinality({k \in validMoves : sortsBefore(k, m)})
  IN IF validMoves = {} THEN NoMove
     ELSE IF Cardinality(validMoves) = 1 THEN CHOOSE m \in validMoves : TRUE
     ELSE CHOOSE m \in validMoves : index(m) = randomIndex

(***************************************************************************)
(* gameStateManager.validateGameState: TRUE iff it returns no error        *)
(***************************************************************************)
validateGameState(gameState) ==
  /\ Len(gameState.players) >= MIN_PLAYERS
  /\ Len(gameState.players) <= MAX_PLAYERS
  /\ \A i, j \in DOMAIN gameState.players :
        gameState.players[i].color = gameState.players[j].color => i = j
  /\ Len(gameState.pieces) = Len(gameState.players) * PIECES_PER_PLAYER
  /\ gameState.currentTurn >= 0
  /\ gameState.currentTurn < Len(gameState.players)
  /\ gameState.gamePhase \in {"waiting", "playing", "finished"}

(***************************************************************************)
(* gameStateManager.handleDiceRoll(gameState, playerId), for the value     *)
(* diceValue that rollDice() draws.                                        *)
(***************************************************************************)
handleDiceRollError(gameState, playerId) ==
  IF ~validateGameState(gameState) THEN "Invalid game state"
  ELSE IF gameState.players[gameState.currentTurn + 1].id # playerId THEN "Not your turn"
  ELSE IF gameState.gamePhase # "playing" THEN "Game is not in playing state"
  ELSE "none"

handleDiceRoll(gameState, playerId, diceValue) ==
  LET newGameState ==
        [gameState EXCEPT !.lastDiceRoll = [playerId |-> playerId, value |-> diceValue]]
  IN [gameState  |-> newGameState,
      diceValue  |-> diceValue,
      validMoves |-> getValidMoves(newGameState, playerId, diceValue)]

(***************************************************************************)
(* gameStateManager.handlePieceMove(gameState, playerId, pieceId, dice)    *)
(***************************************************************************)
handlePieceMoveError(gameState, playerId, pieceId, diceValue) ==
  IF ~validateGameState(gameState) THEN "Invalid game state"
  ELSE IF gameState.players[gameState.currentTurn + 1].id # playerId THEN "Not your turn"
  ELSE IF gameState.gamePhase # "playing" THEN "Game is not in playing state"
  ELSE IF \/ gameState.lastDiceRoll = NoRoll
          \/ gameState.lastDiceRoll.playerId # playerId
          \/ gameState.lastDiceRoll.value # diceValue
  THEN "Invalid dice value or dice not rolled"
  ELSE executeMoveError(gameState, playerId, pieceId, diceValue)

\* handlePieceMove without the checkWinCondition step: the variant C9 is
\* checked against
handlePieceMoveNoWinCheck(gameState, playerId, pieceId, diceValue) ==
  LET moveResult == executeMove(gameState, playerId, pieceId, diceValue)
      moved      == moveResult.gameState
      getsAnotherTurn == getAnotherTurn(diceValue, moveResult.cutPieces)
      afterTurn  == IF ~getsAnotherTurn /\ moved.gamePhase = "playing"
                    THEN [moved EXCEPT !.currentTurn =
                            getNextPlayerTurn(moved.currentTurn, moved.players, TRUE)]
                    ELSE moved
  IN [gameState       |-> [afterTurn EXCEPT !.lastDiceRoll = NoRoll],
      moveResult      |-> moveResult,
      getsAnotherTurn |-> getsAnotherTurn,
      gameFinished    |-> FALSE]

handlePieceMove(gameState, playerId, pieceId, diceValue) ==
  LET moveResult == executeMove(gameState, playerId, pieceId, diceValue)
      moved      == moveResult.gameState
      won        == checkWinCondition(moved, playerId)
      afterWin   == IF won
                    THEN [moved EXCEPT !.gamePhase = "finished", !.winner = playerId]
                    ELSE moved
      getsAnotherTurn == getAnotherTurn(diceValue, moveResult.cutPieces)
      afterTurn  == IF ~getsAnotherTurn /\ afterWin.gamePhase = "playing"
                    THEN [afterWin EXCEPT !.currentTurn =
                            getNextPlayerTurn(afterWin.currentTurn, afterWin.players, TRUE)]
                    ELSE afterWin
  IN [gameState       |-> [afterTurn EXCEPT !.lastDiceRoll = NoRoll],
      moveResult      |-> moveResult,
      getsAnotherTurn |-> getsAnotherTurn,
      gameFinished    |-> afterWin.gamePhase = "finished"]

(***************************************************************************)
(* What a call leaves in `result`: the thrown error, or the values the     *)
(* call returned ("none" / 0 / {} where the call returns no such value).   *)
(***************************************************************************)
Outcome(op, error, type, playerId, pieceId, diceValue, cutPieces) ==
  [op |-> op, error |-> error, type |-> type, playerId |-> playerId,
   pieceId |-> pieceId, diceValue |-> diceValue, cutPieces |-> cutPieces]

NoPiece == <<"none", 0>>

Thrown(op, error, playerId) == Outcome(op, error, "none", playerId, NoPiece, 0, {})

(***************************************************************************)
(* The manager machine.                                                    *)
(*                                                                         *)
(* The game states it starts from: a two-player game (a human host and one *)
(* AI player, as createNewGame builds it) in the playing phase with no     *)
(* pending roll, the pieces of each colour on one of that colour's drawn   *)
(* sets of cells and otherwise at Home.  Every such board is one that      *)
(* legal play reaches: same-colour pieces on distinct cells, no two        *)
(* colours on one shared cell, every piece within one lap of its start.    *)
(***************************************************************************)
GsmPlayers ==
  << [id |-> "h",  color |-> "red",  isAI |-> FALSE, isHost |-> TRUE,  connected |-> TRUE],
     [id |-> "a1", color |-> "blue", isAI |-> TRUE,  isHost |-> FALSE, connected |-> TRUE] >>

\* red: a cell short of blue's start and of blue's first cells, one short of
\* red's own entry, one in the home stretch
RedCellSets == SUBSET {10, 48, 54}
\* blue: a cell short of red's 10 and of blue's own entry, blue's start (safe),
\* the cell after it; or all four pieces near the end of the lap
BlueCellSets == (SUBSET {7, 13, 14}) \cup {{7, 53, 56, 57}}

RECURSIVE SortedSeq(_)
SortedSeq(S) ==
  IF S = {} THEN <<>>
  ELSE LET m == CHOOSE x \in S : \A y \in S : x <= y
       IN <<m>> \o SortedSeq(S \ {m})

\* the cells of S given to pieces 1..|S| in ascending order, the rest at Home
Placement(S) ==
  [k \in 1..PIECES_PER_PLAYER |->
     IF k <= Cardinality(S) THEN SortedSeq(S)[k] ELSE HOME_POSITION]

\* the pieces initializeGamePieces creates, moved to the given placements
BoardOf(players_, placements) ==
  LET fresh == initializeGamePieces(players_)
  IN [k \in DOMAIN fresh |->
        [fresh[k] EXCEPT !.position =
           placements[((k - 1) \div PIECES_PER_PLAYER) + 1][fresh[k].pieceNumber]]]

\* ludoRules.createInitialGameState, with the board and the turn drawn
createInitialGameState(players_, placements, turn) ==
  [players      |-> players_,
   pieces       |-> BoardOf(players_, placements),
   currentTurn  |-> turn,
   gamePhase    |-> "playing",
   winner       |-> Null,
   lastDiceRoll |-> NoRoll]

\* the boards of one colour: the drawn sets of cells; and, for blue, all four
\* pieces on the terminal cell.  isValidMove lets no piece join another of the
\* mover's colour on that cell, so that board is reached only by moves the
\* other player makes with blue's pieces (executeMove does not look at the
\* owner of the piece), the last of them passing the turn on.
RedPlacements == {Placement(S) : S \in RedCellSets}
BluePlacements == {Placement(S) : S \in BlueCellSets}
                    \cup {[k \in 1..PIECES_PER_PLAYER |-> FINISH_END]}

GsmInit ==
  /\ \E R \in RedPlacements, B \in BluePlacements, turn \in {0, 1} :
        game = createInitialGameState(GsmPlayers, <<R, B>>, turn)
  /\ result = Thrown("none", "none", "none")
  /\ calls = 0
  /\ aiTurn = AINone

\* the arguments callers pass
GsmPlayerIds == {"h", "a1"}
GsmPieceIds == {PieceId(game.pieces[i]) : i \in DOMAIN game.pieces} \cup {NoPiece}

GsmHandleDiceRoll(playerId) ==
  LET error == handleDiceRollError(game, playerId)
  IN IF error # "none"
     THEN /\ UNCHANGED <<game, calls>>
          /\ result' = Thrown("handleDiceRoll", error, playerId)
     ELSE /\ calls < MaxCalls
          /\ \E diceValue \in Dice :
               /\ calls' = calls + 1
               /\ game' = handleDiceRoll(game, playerId, diceValue).gameState
               /\ result' = Outcome("handleDiceRoll", "none", "none", playerId,
                                    NoPiece, diceValue, {})

GsmHandlePieceMove(playerId, pieceId, diceValue) ==
  LET error == handlePieceMoveError(game, playerId, pieceId, diceValue)
  IN IF error # "none"
     THEN /\ UNCHANGED <<game, calls>>
          /\ result' = Thrown("handlePieceMove", error, playerId)
     ELSE /\ calls < MaxCalls
          /\ LET r == handlePieceMove(game, playerId, pieceId, diceValue)
             IN /\ calls' = calls + 1
                /\ game' = r.gameState
                /\ result' = Outcome("handlePieceMove", "none", "none", playerId,
                                     pieceId, diceValue, r.moveResult.cutPieces)

(***************************************************************************)
(* gameStateManager.handleAIPlayerTurn(gameState): the roll, then either   *)
(* the forfeit (no valid moves) or the move selectAIMove picks among the   *)
(* valid moves (its scoring is random in part: any valid move).            *)
(***************************************************************************)
handleAIPlayerTurnError(gameState) ==
  IF ~gameState.players[gameState.currentTurn + 1].isAI THEN "Current player is not an AI"
  ELSE IF gameState.gamePhase # "playing" THEN "Game is not in playing state"
  ELSE handleDiceRollError(gameState, gameState.players[gameState.currentTurn + 1].id)

handleAIPlayerTurnNoMoves(rolledState) ==
  [rolledState EXCEPT
     !.currentTurn  = getNextPlayerTurn(rolledState.currentTurn, rolledState.players, TRUE),
     !.lastDiceRoll = NoRoll]

GsmHandleAIPlayerTurn ==
  LET error  == handleAIPlayerTurnError(game)
      aiId   == game.players[game.currentTurn + 1].id
  IN IF error # "none"
     THEN /\ UNCHANGED <<game, calls>>
          /\ result' = Thrown("handleAIPlayerTurn", error, aiId)
     ELSE /\ calls < MaxCalls
          /\ \E diceValue \in Dice :
               LET diceResult == handleDiceRoll(game, aiId, diceValue)
               IN IF diceResult.validMoves = {}
                  THEN /\ calls' = calls + 1
                       /\ game' = handleAIPlayerTurnNoMoves(diceResult.gameState)
                       /\ result' = Outcome("handleAIPlayerTurn", "none", "no_moves",
                                            aiId, NoPiece, diceValue, {})
                  ELSE \E selectedMove \in diceResult.validMoves :
                         LET r == handlePieceMove(diceResult.gameState, aiId,
                                                  selectedMove.pieceId, diceValue)
                         IN /\ calls' = calls + 1
                            /\ game' = r.gameState
                            /\ result' = Outcome("handleAIPlayerTurn", "none", "move",
                                                 aiId, selectedMove.pieceId, diceValue,
                                                 r.moveResult.cutPieces)

(***************************************************************************)
(* gameStateManager.updatePlayerConnection(gameState, playerId, connected) *)
(***************************************************************************)
updatePlayerConnection(gameState, playerId, connected) ==
  LET playerIndex == PlayerIndexById(gameState.players, playerId)
  IN IF playerIndex # 0
     THEN [gameState EXCEPT !.players[playerIndex].connected = connected]
     ELSE gameState

(***************************************************************************)
(* gameStateManager.shouldAbandonGame(gameState)                           *)
(***************************************************************************)
shouldAbandonGame(gameState) ==
  IF gameState.gamePhase # "playing" THEN FALSE
  ELSE LET connectedHumanPlayers ==
             {i \in DOMAIN gameState.players :
                ~gameState.players[i].isAI /\ gameState.players[i].connected}
           aiPlayers == {i \in DOMAIN gameState.players : gameState.players[i].isAI}
       IN IF Cardinality(connectedHumanPlayers) = 0 THEN TRUE
          ELSE IF Cardinality(connectedHumanPlayers) = 1 /\ Cardinality(aiPlayers) = 0
          THEN TRUE
          ELSE FALSE

(***************************************************************************)
(* gameStateManager.abandonGame(gameState, reason)                         *)
(***************************************************************************)
abandonGame(gameState) == [gameState EXCEPT !.gamePhase = "abandoned"]

\* a caller reporting that a player's connection went down or came back
GsmUpdatePlayerConnection(playerId, connected) ==
  /\ game' = updatePlayerConnection(game, playerId, connected)
  /\ result' = Outcome("updatePlayerConnection", "none",
                       IF connected THEN "player_reconnect" ELSE "player_disconnect",
                       playerId, NoPiece, 0, {})
  /\ UNCHANGED calls

\* a caller that abandons the game when shouldAbandonGame says so
GsmAbandonGame ==
  /\ shouldAbandonGame(game)
  /\ game' = abandonGame(game)
  /\ result' = Outcome("abandonGame", "none", "game_abandoned", "none", NoPiece, 0, {})
  /\ UNCHANGED calls

\* the three-player games the connection calls are explored from: the host,
\* one AI player and a second human, the first red piece on 10, the first
\* blue piece on 14 or at Home, the green pieces at Home
GsmConnPlayers ==
  << [id |-> "h",  color |-> "red",   isAI |-> FALSE, isHost |-> TRUE,  connected |-> TRUE],
     [id |-> "a1", color |-> "blue",  isAI |-> TRUE,  isHost |-> FALSE, connected |-> TRUE],
     [id |-> "g1", color |-> "green", isAI |-> FALSE, isHost |-> FALSE, connected |-> TRUE] >>

GsmConnInit ==
  /\ \E R \in {{10}}, B \in SUBSET {14}, turn \in {0, 1, 2} :
        game = createInitialGameState(GsmConnPlayers,
                                      <<Placement(R), Placement(B), Placement({})>>, turn)
  /\ result = Thrown("none", "none", "none")
  /\ calls = 0
  /\ aiTurn = AINone

GsmConnPlayerIds == {game.players[i].id : i \in DOMAIN game.players}
GsmConnPieceIds ==
  {PieceId(game.pieces[i]) : i \in {j \in DOMAIN game.pieces : game.pieces[j].pieceNumber = 1}}

(***************************************************************************)
(* handleAIPlayerTurn as it runs: the part before `await handleAITurn`     *)
(* (the roll; the forfeit when no move is valid, which does not wait), the *)
(* thinking delay during which the caller's other calls run, and the part  *)
(* after it (selectAIMove on the rolled copy, handlePieceMove on the       *)
(* rolled copy, the returned state stored by the caller).  handleDiceRoll  *)
(* copies the state shallowly: the rolled copy shares the players array,   *)
(* so updatePlayerConnection, which assigns to the player object, shows    *)
(* in it until the caller's state is replaced by executeMove's deep copy.  *)
(***************************************************************************)
AIPending(rolledState, diceValue, shared) ==
  [gameState |-> rolledState, diceValue |-> diceValue, shared |-> shared]

GsmAIBegin ==
  LET error == handleAIPlayerTurnError(game)
      aiId  == game.players[game.currentTurn + 1].id
  IN /\ aiTurn = AINone
     /\ IF error # "none"
        THEN /\ UNCHANGED <<game, calls, aiTurn>>
             /\ result' = Thrown("handleAIPlayerTurn", error, aiId)
        ELSE /\ calls < MaxCalls
             /\ \E diceValue \in Dice :
                  LET diceResult == handleDiceRoll(game, aiId, diceValue)
                  IN /\ calls' = calls + 1
                     /\ IF diceResult.validMoves = {}
                        THEN /\ game' = handleAIPlayerTurnNoMoves(diceResult.gameState)
                             /\ result' = Outcome("handleAIPlayerTurn", "none", "no_moves",
                                                  aiId, NoPiece, diceValue, {})
                             /\ UNCHANGED aiTurn
                        ELSE /\ aiTurn' = AIPending(diceResult.gameState, diceValue, TRUE)
                             /\ result' = Outcome("handleAITurn", "none", "thinking",
                                                  aiId, NoPiece, diceValue, {})
                             /\ UNCHANGED game

GsmAIFinish ==
  /\ aiTurn # AINone
  /\ LET rolledState == aiTurn.gameState
         diceValue   == aiTurn.diceValue
         aiId        == rolledState.players[rolledState.currentTurn + 1].id
         validMoves  == getValidMoves(rolledState, aiId, diceValue)
     IN /\ aiTurn' = AINone
        /\ UNCHANGED calls
        /\ IF validMoves = {}
           THEN /\ game' = handleAIPlayerTurnNoMoves(rolledState)
                /\ result' = Outcome("handleAIPlayerTurn", "none", "no_move_selected",
                                     aiId, NoPiece, diceValue, {})
           ELSE \E selectedMove \in validMoves :
                  LET error == handlePieceMoveError(rolledState, aiId,
                                                    selectedMove.pieceId, diceValue)
                      r     == handlePieceMove(rolledState, aiId,
                                               selectedMove.pieceId, diceValue)
                  IN IF error # "none"
                     THEN /\ UNCHANGED game
                          /\ result' = Thrown("handleAIPlayerTurn", error, aiId)
                     ELSE /\ game' = r.gameState
                          /\ result' = Outcome("handleAIPlayerTurn", "none", "move",
                                               aiId, selectedMove.pieceId, diceValue,
                                               r.moveResult.cutPieces)

\* the caller's calls while a handleAIPlayerTurn call may be waiting
GsmAIUpdatePlayerConnection(playerId, connected) ==
  /\ GsmUpdatePlayerConnection(playerId, connected)
  /\ aiTurn' = IF aiTurn # AINone /\ aiTurn.shared
               THEN [aiTurn EXCEPT
                       !.gameState = updatePlayerConnection(@, playerId, connected)]
               ELSE aiTurn

GsmAIAbandonGame == GsmAbandonGame /\ UNCHANGED aiTurn

GsmAIHandleDiceRoll(playerId) == GsmHandleDiceRoll(playerId) /\ UNCHANGED aiTurn

GsmAIHandlePieceMove(playerId, pieceId, diceValue) ==
  /\ GsmHandlePieceMove(playerId, pieceId, diceValue)
  /\ aiTurn' = IF aiTurn # AINone /\ game' # game
               THEN [aiTurn EXCEPT !.shared = FALSE]
               ELSE aiTurn

\* the two-player games the waiting AI turn is explored from
AIRedCellSets == {{}, {10}}
AIBlueCellSets == {{}, {14}}
GsmAIInit ==
  /\ \E R \in AIRedCellSets, B \in AIBlueCellSets, turn \in {0, 1} :
        game = createInitialGameState(GsmPlayers, <<Placement(R), Placement(B)>>, turn)
  /\ result = Thrown("none", "none", "none")
  /\ calls = 0
  /\ aiTurn = AINone

(***************************************************************************)
(* The calls of the pure functions checkWinCondition and selectAIMove on   *)
(* a game: the game is left as it is, result holds what the call returned. *)
(***************************************************************************)
\* the callers' arguments: the two players and an id that is no player's
FnPlayerIds == {"h", "a1", "x"}

GsmCheckWinCondition(playerId) ==
  /\ calls < MaxFnCalls
  /\ calls' = calls + 1
  /\ result' = [op |-> "checkWinCondition", error |-> "none", playerId |-> playerId,
                value |-> checkWinCondition(game, playerId)]
  /\ UNCHANGED <<game, aiTurn>>

GsmSelectAIMove(playerId, diceValue, difficulty) ==
  /\ calls < MaxFnCalls
  /\ calls' = calls + 1
  /\ UNCHANGED <<game, aiTurn>>
  /\ IF selectAIMoveError(game, playerId) # "none"
     THEN result' = [op |-> "selectAIMove", error |-> selectAIMoveError(game, playerId),
                     playerId |-> playerId, diceValue |-> diceValue,
                     difficulty |-> difficulty, move |-> NoMove]
     ELSE LET validMoves == getValidMoves(game, playerId, diceValue)
              pieceIds == {m.pieceId : m \in validMoves}
          IN \E jitter \in [pieceIds -> JitterValues(difficulty)],
                randomIndex \in RandomIndexes(difficulty, Cardinality(validMoves)) :
                result' = [op |-> "selectAIMove", error |-> "none",
                           playerId |-> playerId, diceValue |-> diceValue,
                           difficulty |-> difficulty,
                           move |-> selectAIMove(game, playerId, diceValue, difficulty,
                                                 jitter, randomIndex)]

\* the boards the functions are called on.  Blue (the AI player): at Home; a
\* piece at the end of the lap with two just after the start; one piece on
\* the ring; one piece on the terminal cell and one two cells short of it;
\* three pieces on the terminal cell with the fourth two cells short of it,
\* on the last cell of its lap, or on it.  Red: at Home, one or two pieces
\* on cells blue can land on, a piece in the home stretch.
FnBluePlacements ==
  { <<HOME_POSITION, HOME_POSITION, HOME_POSITION, HOME_POSITION>>,
    <<HOME_POSITION, 12, 14, 16>>,
    <<14, HOME_POSITION, HOME_POSITION, HOME_POSITION>>,
    <<FINISH_END, 55, HOME_POSITION, HOME_POSITION>>,
    <<FINISH_END, FINISH_END, FINISH_END, 55>>,
    <<FINISH_END, FINISH_END, FINISH_END, 12>>,
    <<FINISH_END, FINISH_END, FINISH_END, FINISH_END>> }
FnRedPlacements ==
  { <<HOME_POSITION, HOME_POSITION, HOME_POSITION, HOME_POSITION>>,
    <<20, HOME_POSITION, HOME_POSITION, HOME_POSITION>>,
    <<17, 20, HOME_POSITION, HOME_POSITION>>,
    <<54, 18, HOME_POSITION, HOME_POSITION>> }

GsmFnInit ==
  /\ \E R \in FnRedPlacements, B \in FnBluePlacements :
        game = createInitialGameState(GsmPlayers, <<R, B>>, 1)
  /\ result = Thrown("none", "none", "none")
  /\ calls = 0
  /\ aiTurn = AINone

(***************************************************************************)
(* The calls with the move history and the caller's snapshot.  The game    *)
(* here carries moveHistory, [] in the state createNewGame returns, and    *)
(* result holds, next to the returned state, the state object the caller   *)
(* passed as the call leaves it.  handleDiceRoll, updatePlayerConnection   *)
(* and abandonGame copy the state with { ...gameState }: the copy shares   *)
(* the moveHistory array and the player objects with the state passed, so  *)
(* push and the assignment to player.connected show in both.  executeMove, *)
(* and handlePieceMove through it, work on JSON.parse(JSON.stringify()).   *)
(***************************************************************************)
createNewGame(players_) ==
  LET gameState == createInitialGameState(
                     players_, [i \in DOMAIN players_ |-> Placement({})], 0)
  IN [f \in DOMAIN gameState \cup {"moveHistory"} |->
        IF f = "moveHistory" THEN << >> ELSE gameState[f]]

\* newGameState.moveHistory.push(...) for each of the entries
Pushed(gameState, entries) == [gameState EXCEPT !.moveHistory = @ \o entries]

handleDiceRollEntry(playerId, diceValue) ==
  [type |-> "dice_roll", playerId |-> playerId, diceValue |-> diceValue]

\* the piece_move entry, and the game_end entry when the mover has won
handlePieceMoveEntries(moveResult, playerId, pieceId, diceValue) ==
  << [type         |-> "piece_move",
      playerId     |-> playerId,
      pieceId      |-> pieceId,
      fromPosition |-> moveResult.movedPiece.position,
      toPosition   |-> moveResult.gameState.pieces[
                         PieceIndexById(moveResult.gameState.pieces, pieceId)].position,
      diceValue    |-> diceValue,
      cutPieces    |-> moveResult.cutPieces] >>
  \o IF checkWinCondition(moveResult.gameState, playerId)
     THEN << [type |-> "game_end", winnerId |-> playerId] >>
     ELSE << >>

updatePlayerConnectionEntry(playerId, connected) ==
  [type |-> IF connected THEN "player_reconnect" ELSE "player_disconnect",
   playerId |-> playerId]

abandonGameEntry == [type |-> "game_abandoned", reason |-> "Game abandoned"]

\* what a call leaves in result: the error thrown ("none" when it returned),
\* the state passed as it is after the call, the state returned
CallOutcome(op, error, input, gameState) ==
  [op |-> op, error |-> error, input |-> input, gameState |-> gameState]

CallExecuteMove(playerId, pieceId, steps) ==
  LET error == executeMoveError(game, playerId, pieceId, steps)
  IN IF error # "none"
     THEN /\ UNCHANGED <<game, calls>>
          /\ result' = CallOutcome("executeMove", error, game, game)
     ELSE /\ calls < MaxCalls
          /\ calls' = calls + 1
          /\ game' = executeMove(game, playerId, pieceId, steps).gameState
          /\ result' = CallOutcome("executeMove", "none", game, game')

CallHandleDiceRoll(playerId) ==
  LET error == handleDiceRollError(game, playerId)
  IN IF error # "none"
     THEN /\ UNCHANGED <<game, calls>>
          /\ result' = CallOutcome("handleDiceRoll", error, game, game)
     ELSE /\ calls < MaxCalls
          /\ calls' = calls + 1
          /\ \E diceValue \in Dice :
               LET entries == << handleDiceRollEntry(playerId, diceValue) >>
               IN /\ game' = Pushed(handleDiceRoll(game, playerId, diceValue).gameState,
                                    entries)
                  /\ result' = CallOutcome("handleDiceRoll", "none",
                                           Pushed(game, entries), game')

CallHandlePieceMove(playerId, pieceId, diceValue) ==
  LET error == handlePieceMoveError(game, playerId, pieceId, diceValue)
  IN IF error # "none"
     THEN /\ UNCHANGED <<game, calls>>
          /\ result' = CallOutcome("handlePieceMove", error, game, game)
     ELSE /\ calls < MaxCalls
          /\ calls' = calls + 1
          /\ LET r == handlePieceMove(game, playerId, pieceId, diceValue)
             IN game' = Pushed(r.gameState,
                               handlePieceMoveEntries(r.moveResult, playerId, pieceId,
                                                      diceValue))
          /\ result' = CallOutcome("handlePieceMove", "none", game, game')

CallUpdatePlayerConnection(playerId, connected) ==
  IF PlayerIndexById(game.players, playerId) = 0
  THEN /\ UNCHANGED <<game, calls>>
       /\ result' = CallOutcome("updatePlayerConnection", "none", game, game)
  ELSE /\ calls < MaxCalls
       /\ calls' = calls + 1
       /\ game' = Pushed(updatePlayerConnection(game, playerId, connected),
                         << updatePlayerConnectionEntry(playerId, connected) >>)
       /\ result' = CallOutcome("updatePlayerConnection", "none",
                                [game EXCEPT !.players = game'.players,
                                             !.moveHistory = game'.moveHistory],
                                game')

CallAbandonGame ==
  /\ shouldAbandonGame(game)
  /\ calls < MaxCalls
  /\ calls' = calls + 1
  /\ game' = Pushed(abandonGame(game), << abandonGameEntry >>)
  /\ result' = CallOutcome("abandonGame", "none",
                           [game EXCEPT !.moveHistory = game'.moveHistory], game')

\* the game createNewGame returns for the host and one AI player
CallsInit ==
  /\ game = createNewGame(GsmPlayers)
  /\ result = CallOutcome("none", "none", game, game)
  /\ calls = 0
  /\ aiTurn = AINone

(***************************************************************************)
(* The server machine: POST /api/rooms/create                              *)
(***************************************************************************)
Sockets == 1..NumSockets
\* player.socketId when undefined or null (both falsy)
NoSocket == 0

HostId == "h"
\* generatePlayerId(): a fresh id each time
AIPlayerId(i) == CASE i = 1 -> "a1" [] i = 2 -> "a2" [] OTHER -> "a3"
HttpPlayerId(i) == CASE i = 1 -> "g1" [] i = 2 -> "g2" [] i = 3 -> "g3" [] OTHER -> "g4"

\* colors.find(color => !usedColors.includes(color)), Undefined when none
AvailableColor(players_) ==
  LET used == {players_[i].color : i \in DOMAIN players_}
      free == {k \in DOMAIN PLAYER_COLORS : PLAYER_COLORS[k] \notin used}
  IN IF free = {} THEN Undefined
     ELSE PLAYER_COLORS[CHOOSE k \in free : \A j \in free : k <= j]

RECURSIVE CreatePlayers(_)
\* the host, then the AI players pushed by the loop
CreatePlayers(aiPlayers) ==
  IF aiPlayers = 0
  THEN << [id |-> HostId, uuid |-> HostId, isHost |-> TRUE, isAI |-> FALSE,
           color |-> "red", connected |-> TRUE, socketId |-> NoSocket] >>
  ELSE LET before == CreatePlayers(aiPlayers - 1)
           color  == AvailableColor(before)
       IN Append(before,
                 [id |-> AIPlayerId(aiPlayers), uuid |-> AIPlayerId(aiPlayers),
                  isHost |-> FALSE, isAI |-> TRUE,
                  color |-> IF color # Undefined THEN color
                            ELSE PLAYER_COLORS[aiPlayers + 1],
                  connected |-> TRUE, socketId |-> NoSocket])

CreateRoom(maxPlayers_, aiPlayers) ==
  /\ players = CreatePlayers(aiPlayers)
  /\ maxPlayers = maxPlayers_
  /\ roomGameState = "waiting"
  /\ gameStateData = [gamePhase    |-> "waiting",
                      pieces       |-> initializeGamePieces(CreatePlayers(aiPlayers)),
                      currentTurn  |-> 0,
                      winner       |-> Null,
                      lastDiceRoll |-> NoRoll]

NoReply == [op |-> "none", error |-> "none"]

\* the request bodies <<maxPlayers, aiPlayers>> of POST /api/rooms/create that
\* are explored: two seats with and without an AI player, three seats with one
RoomShapes == {<<2, 0>>, <<2, 1>>, <<3, 1>>}

(***************************************************************************)
(* socket.on('joinRoom', {roomId, playerId})                               *)
(***************************************************************************)
RoomId == "R"
\* another room of the map
OtherRoomId == "Q"

\* gameRooms.set(roomId, roomData) on an empty map, lastActivity the time of
\* the creation
OneRoom == [r \in {RoomId} |-> [lastActivity |-> 0]]
TwoRooms == [r \in {RoomId, OtherRoomId} |-> [lastActivity |-> 0]]

\* room.players.find(p => p.id === playerId || p.uuid === playerId), 0 when none
PlayerIndexByIdOrUuid(players_, playerId) ==
  LET S == {i \in DOMAIN players_ :
              players_[i].id = playerId \/ players_[i].uuid = playerId}
  IN IF S = {} THEN 0 ELSE CHOOSE i \in S : \A j \in S : i <= j

HumanCount(players_) == Cardinality({i \in DOMAIN players_ : ~players_[i].isAI})

\* gameRooms.get(roomId) found the room
RoomFound == RoomId \in DOMAIN gameRooms

\* room.lastActivity = new Date().toISOString() in the room of the map
Stamped == IF RoomFound THEN [gameRooms EXCEPT ![RoomId].lastActivity = clock]
           ELSE gameRooms

\* a rejection that also stamps the room: the variant C19 is checked against
RejectedStamping(op, error) ==
  /\ reply' = [op |-> op, error |-> error]
  /\ lastActivity' = "now"
  /\ emitted' = << >>
  /\ gameRooms' = Stamped
  /\ UNCHANGED <<players, maxPlayers, roomGameState, gameStateData, sockets,
                 httpJoins, rollsLeft, clock>>

\* callback({error}) / res.status(400): the reply and nothing else
Rejected(op, error) ==
  /\ reply' = [op |-> op, error |-> error]
  /\ lastActivity' = "earlier"
  /\ emitted' = << >>
  /\ UNCHANGED <<players, maxPlayers, roomGameState, gameStateData, sockets,
                 httpJoins, rollsLeft, clock, gameRooms>>

\* room.lastActivity = new Date().toISOString(), the success reply, the emits
Accepted(op, emits) ==
  /\ reply' = [op |-> op, error |-> "none"]
  /\ lastActivity' = "now"
  /\ emitted' = emits
  /\ gameRooms' = Stamped
  /\ UNCHANGED clock

\* the sockets io.to(roomId) reaches: those that ran socket.join(roomId)
Subscribers(sockets_) ==
  {s \in Sockets : sockets_[s].open /\ sockets_[s].roomId = RoomId}

Emit(event, to, data) == [event |-> event, to |-> to, data |-> data]

\* io.to(roomId).emit('roomUpdate', room)
RoomUpdate(sockets_, players_, roomGameState_, gameStateData_) ==
  Emit("roomUpdate", Subscribers(sockets_),
       [players |-> players_, gameState |-> roomGameState_,
        gameStateData |-> gameStateData_])

\* a gameStateUpdate that carries the phase and nothing else: the variant C20
\* is checked against
GameStateUpdatePhaseOnly(sockets_, players_, gameStateData_) ==
  Emit("gameStateUpdate", Subscribers(sockets_),
       [players |-> players_,
        gameStateData |-> [gamePhase |-> gameStateData_.gamePhase]])

\* io.to(roomId).emit('gameStateUpdate', room.gameStateData)
GameStateUpdate(sockets_, players_, gameStateData_) ==
  Emit("gameStateUpdate", Subscribers(sockets_),
       [players |-> players_, gameStateData |-> gameStateData_])

\* the playerId values a client puts in a payload: the ids in the room, an
\* id not yet in it, and a payload without the field
NewPlayerIds == {"u1"}
PayloadIds == {players[i].id : i \in DOMAIN players} \cup {Undefined}

\* a reconnection that seats the player a second time: the variant C11 is
\* checked against
ReattachAsNewSeat(players_, idx, s) ==
  Append(players_, [players_[idx] EXCEPT !.connected = TRUE, !.socketId = s])

\* a server that never sees a player as connected elsewhere: the variant C12
\* is checked against
ConnectedElsewhereNever(player, s) == FALSE

\* player.connected && player.socketId && player.socketId !== socket.id
ConnectedElsewhere(player, s) ==
  /\ player.connected
  /\ player.socketId # NoSocket
  /\ player.socketId # s

\* a reconnection that makes the returning player a host: the variant C31 is
\* checked against
ReattachAsHost(players_, idx, s) ==
  [players_ EXCEPT ![idx].connected = TRUE, ![idx].socketId = s, ![idx].isHost = TRUE]

\* player.connected = true; player.socketId = socket.id
Reattach(players_, idx, s) ==
  [players_ EXCEPT ![idx].connected = TRUE, ![idx].socketId = s]

\* the checks of joinRoom, in the handler's order
JoinRoomError(s, playerId) ==
  LET idx == PlayerIndexByIdOrUuid(players, playerId)
  IN IF ~RoomFound THEN "Room not found"
     ELSE IF idx # 0
     THEN IF ConnectedElsewhere(players[idx], s)
          THEN "Player already connected from another session"
          ELSE "none"
     ELSE IF roomGameState # "waiting" THEN "Game already in progress"
     ELSE IF Len(players) >= maxPlayers THEN "Room is full"
     ELSE IF HumanCount(players) >= maxPlayers THEN "Maximum human players reached"
     ELSE "none"

JoinRoom(s, playerId) ==
  /\ sockets[s].open
  /\ LET idx == PlayerIndexByIdOrUuid(players, playerId)
     IN IF JoinRoomError(s, playerId) # "none"
        THEN Rejected("joinRoom", JoinRoomError(s, playerId))
        ELSE IF idx # 0
        THEN      /\ players' = Reattach(players, idx, s)
                  /\ sockets' = [sockets EXCEPT ![s].roomId = RoomId,
                                                ![s].playerId = playerId]
                  /\ UNCHANGED <<maxPlayers, roomGameState, gameStateData,
                                 httpJoins, rollsLeft>>
                  /\ Accepted("joinRoom",
                       << RoomUpdate(sockets', players', roomGameState, gameStateData),
                          GameStateUpdate(sockets', players', gameStateData) >>)
        ELSE LET color  == AvailableColor(players)
                 player == [id |-> playerId, uuid |-> playerId, isHost |-> FALSE,
                            isAI |-> FALSE,
                            color |-> IF color # Undefined THEN color ELSE "red",
                            connected |-> TRUE, socketId |-> s]
             IN /\ players' = Append(players, player)
                /\ gameStateData' =
                     [gameStateData EXCEPT !.pieces = initializeGamePieces(players')]
                /\ sockets' = [sockets EXCEPT ![s].roomId = RoomId,
                                              ![s].playerId = playerId]
                /\ UNCHANGED <<maxPlayers, roomGameState, httpJoins, rollsLeft>>
                /\ Accepted("joinRoom",
                     << Emit("playerJoined", Subscribers(sockets) \ {s}, player),
                        RoomUpdate(sockets', players', roomGameState, gameStateData'),
                        GameStateUpdate(sockets', players', gameStateData') >>)

(***************************************************************************)
(* socket.on('disconnect')                                                 *)
(***************************************************************************)
Disconnect(s) ==
  /\ sockets[s].open
  /\ sockets' = [sockets EXCEPT ![s].open = FALSE]
  /\ LET idx == PlayerIndexById(players, sockets[s].playerId)
     IN IF /\ sockets[s].roomId # Undefined /\ sockets[s].playerId # Undefined
           /\ RoomFound /\ idx # 0
        THEN players' = [players EXCEPT ![idx].connected = FALSE,
                                        ![idx].socketId = NoSocket]
        ELSE players' = players
  /\ reply' = [op |-> "disconnect", error |-> "none"]
  /\ lastActivity' = "earlier"
  /\ UNCHANGED <<maxPlayers, roomGameState, gameStateData, httpJoins, rollsLeft,
                 clock, gameRooms>>
  /\ emitted' = IF /\ sockets[s].roomId # Undefined /\ sockets[s].playerId # Undefined
                   /\ RoomFound
                THEN << RoomUpdate(sockets', players', roomGameState, gameStateData) >>
                ELSE << >>

(***************************************************************************)
(* POST /api/rooms/:roomId/join                                            *)
(***************************************************************************)
HttpJoin ==
  /\ httpJoins < MaxHttpJoins
  /\ IF ~RoomFound THEN Rejected("httpJoin", "Room not found")
     ELSE IF HumanCount(players) >= maxPlayers
     THEN Rejected("httpJoin", "Room is full")
     ELSE IF roomGameState # "waiting"
     THEN Rejected("httpJoin", "Game already in progress")
     ELSE /\ players' = Append(players,
                          [id |-> HttpPlayerId(httpJoins + 1), uuid |-> Undefined,
                           isHost |-> FALSE, isAI |-> FALSE,
                           color |-> AvailableColor(players),
                           connected |-> TRUE, socketId |-> NoSocket])
          /\ httpJoins' = httpJoins + 1
          /\ UNCHANGED <<maxPlayers, roomGameState, gameStateData, sockets, rollsLeft>>
          /\ Accepted("httpJoin",
               << Emit("playerJoined", Subscribers(sockets), players'[Len(players')]) >>)

(***************************************************************************)
(* socket.on('startGame', {roomId})                                        *)
(***************************************************************************)
\* the checks of startGame without the host check: the variant C10 is checked
\* against
StartGameErrorAnyCaller(s) ==
  IF ~RoomFound THEN "Room not found"
  ELSE IF roomGameState # "waiting" THEN "Game is not in waiting state"
  ELSE IF HumanCount(players) < 1 THEN "Need at least 1 human player to start the game"
  ELSE IF Len(players) < MIN_PLAYERS THEN "Need at least 2 players to start the game"
  ELSE "none"

StartGameError(s) ==
  LET idx == PlayerIndexByIdOrUuid(players, sockets[s].playerId)
  IN IF ~RoomFound THEN "Room not found"
     ELSE IF idx = 0 \/ ~players[idx].isHost THEN "Only the host can start the game"
     ELSE IF roomGameState # "waiting" THEN "Game is not in waiting state"
     ELSE IF HumanCount(players) < 1 THEN "Need at least 1 human player to start the game"
     ELSE IF Len(players) < MIN_PLAYERS THEN "Need at least 2 players to start the game"
     ELSE "none"

StartGame(s) ==
  /\ sockets[s].open
  /\ IF StartGameError(s) # "none"
     THEN Rejected("startGame", StartGameError(s))
     ELSE /\ roomGameState' = "playing"
          /\ gameStateData' = [gameStateData EXCEPT !.gamePhase = "playing",
                                                    !.currentTurn = 0,
                                                    !.lastDiceRoll = NoRoll]
          /\ UNCHANGED <<players, maxPlayers, sockets, httpJoins, rollsLeft>>
          /\ Accepted("startGame",
               << Emit("gameStarted", Subscribers(sockets), "playing"),
                  RoomUpdate(sockets, players, roomGameState', gameStateData'),
                  GameStateUpdate(sockets, players, gameStateData') >>)

(***************************************************************************)
(* socket.on('rollDice', {roomId, playerId})                               *)
(***************************************************************************)
\* rollDice without the check of the pending roll: the variant C22 is
\* checked against
RollDiceErrorIgnoringPendingRoll(playerId) ==
  IF ~RoomFound THEN "Room not found"
  ELSE IF roomGameState # "playing" \/ gameStateData.gamePhase # "playing"
  THEN "Game is not in playing state"
  ELSE IF gameStateData.currentTurn + 1 \notin DOMAIN players
  THEN "Not your turn"
  ELSE IF /\ players[gameStateData.currentTurn + 1].id # playerId
          /\ players[gameStateData.currentTurn + 1].uuid # playerId
  THEN "Not your turn"
  ELSE "none"

RollDiceError(playerId) ==
  IF ~RoomFound THEN "Room not found"
  ELSE IF roomGameState # "playing" \/ gameStateData.gamePhase # "playing"
  THEN "Game is not in playing state"
  ELSE IF gameStateData.currentTurn + 1 \notin DOMAIN players
  THEN "Not your turn"
  ELSE IF /\ players[gameStateData.currentTurn + 1].id # playerId
          /\ players[gameStateData.currentTurn + 1].uuid # playerId
  THEN "Not your turn"
  ELSE IF /\ gameStateData.lastDiceRoll # NoRoll
          /\ gameStateData.lastDiceRoll.playerId = playerId
  THEN "You have already rolled the dice this turn"
  ELSE "none"

RollDice(playerId) ==
  IF RollDiceError(playerId) # "none"
  THEN Rejected("rollDice", RollDiceError(playerId))
  ELSE /\ rollsLeft > 0
       /\ rollsLeft' = rollsLeft - 1
       /\ \E diceValue \in Dice :
            gameStateData' = [gameStateData EXCEPT
                                !.lastDiceRoll = [playerId |-> playerId,
                                                  value |-> diceValue]]
       /\ UNCHANGED <<players, maxPlayers, roomGameState, sockets, httpJoins>>
       /\ Accepted("rollDice",
            << Emit("diceRolled", Subscribers(sockets), gameStateData'.lastDiceRoll),
               GameStateUpdate(sockets, players, gameStateData') >>)

(***************************************************************************)
(* socket.on('movePiece', {roomId, playerId, pieceId, diceValue})          *)
(***************************************************************************)
\* startPositions[playerColor] || 0
ServerStartPosition(playerColor) ==
  IF playerColor \in DOMAIN PLAYER_START_POSITIONS
  THEN PLAYER_START_POSITIONS[playerColor] ELSE 0

\* the position the handler computes for a piece that passed the checks
ServerNewPosition(position, diceValue, playerColor) ==
  IF position = HOME_POSITION
  THEN ServerStartPosition(playerColor)
  ELSE IF position + diceValue >= 52
       THEN position + diceValue - 52
       ELSE position + diceValue

MovePieceError(playerId, pieceId, diceValue) ==
  IF ~RoomFound THEN "Room not found"
  ELSE IF roomGameState # "playing" \/ gameStateData.gamePhase # "playing"
  THEN "Game is not in playing state"
  ELSE IF gameStateData.currentTurn + 1 \notin DOMAIN players
  THEN "Not your turn"
  ELSE IF /\ players[gameStateData.currentTurn + 1].id # playerId
          /\ players[gameStateData.currentTurn + 1].uuid # playerId
  THEN "Not your turn"
  ELSE IF \/ gameStateData.lastDiceRoll = NoRoll
          \/ gameStateData.lastDiceRoll.playerId # playerId
  THEN "You must roll the dice first"
  ELSE IF gameStateData.lastDiceRoll.value # diceValue
  THEN "Invalid dice value"
  ELSE IF PieceIndexById(gameStateData.pieces, pieceId) = 0
  THEN "Piece not found"
  ELSE IF gameStateData.pieces[PieceIndexById(gameStateData.pieces, pieceId)].playerId
            # playerId
  THEN "This piece does not belong to you"
  ELSE IF /\ gameStateData.pieces[PieceIndexById(gameStateData.pieces, pieceId)].position
               = HOME_POSITION
          /\ diceValue # 6
  THEN "Need a 6 to move piece out of home"
  ELSE "none"

MovePiece(playerId, pieceId, diceValue) ==
  IF MovePieceError(playerId, pieceId, diceValue) # "none"
  THEN Rejected("movePiece", MovePieceError(playerId, pieceId, diceValue))
  ELSE LET k == PieceIndexById(gameStateData.pieces, pieceId)
           currentPlayer == players[gameStateData.currentTurn + 1]
           newPosition == ServerNewPosition(gameStateData.pieces[k].position,
                                            diceValue, currentPlayer.color)
       IN /\ gameStateData' =
               [gameStateData EXCEPT
                  !.pieces[k].position = newPosition,
                  !.lastDiceRoll = NoRoll,
                  !.currentTurn = IF diceValue # 6
                                  THEN (gameStateData.currentTurn + 1) % Len(players)
                                  ELSE gameStateData.currentTurn]
          /\ UNCHANGED <<players, maxPlayers, roomGameState, sockets, httpJoins,
                         rollsLeft>>
          /\ Accepted("movePiece",
               << Emit("pieceMoved", Subscribers(sockets),
                       [playerId |-> playerId, pieceId |-> pieceId,
                        newPosition |-> newPosition, diceValue |-> diceValue]),
                  GameStateUpdate(sockets, players, gameStateData') >>)

\* the pieceId values a client puts in a payload
PayloadPieceIds ==
  {PieceId(gameStateData.pieces[i]) : i \in DOMAIN gameStateData.pieces} \cup {NoPiece}

(***************************************************************************)
(* The cleanup of inactive rooms: setInterval(..., 5 * 60 * 1000) with the *)
(* timeout of 15 minutes, three periods of the interval.                   *)
(***************************************************************************)
IdleTimeout == 3

\* time passes
Tick ==
  /\ clock < MaxClock
  /\ clock' = clock + 1
  /\ UNCHANGED <<players, maxPlayers, roomGameState, gameStateData, sockets, reply,
                 httpJoins, rollsLeft, lastActivity, emitted, gameRooms>>

\* the cleanup that deletes a room as soon as the timeout is reached: the
\* variant C30 is checked against
CleanupRoomsAtTimeout ==
  /\ gameRooms' = [r \in {q \in DOMAIN gameRooms :
                            ~(clock - gameRooms[q].lastActivity >= IdleTimeout)}
                     |-> gameRooms[r]]
  /\ UNCHANGED <<players, maxPlayers, roomGameState, gameStateData, sockets, reply,
                 httpJoins, rollsLeft, lastActivity, emitted, clock>>

\* the callback of the interval: gameRooms.delete(roomId) for every room
\* with now - lastActivity > timeout
CleanupRooms ==
  /\ gameRooms' = [r \in {q \in DOMAIN gameRooms :
                            ~(clock - gameRooms[q].lastActivity > IdleTimeout)}
                     |-> gameRooms[r]]
  /\ UNCHANGED <<players, maxPlayers, roomGameState, gameStateData, sockets, reply,
                 httpJoins, rollsLeft, lastActivity, emitted, clock>>

\* a joinRoom that names the other room: the lookup, and when the room is
\* found, its lastActivity (the content of that room is not kept)
JoinOtherRoom ==
  IF OtherRoomId \notin DOMAIN gameRooms
  THEN Rejected("joinRoom", "Room not found")
  ELSE /\ gameRooms' = [gameRooms EXCEPT ![OtherRoomId].lastActivity = clock]
       /\ UNCHANGED <<players, maxPlayers, roomGameState, gameStateData, sockets,
                      reply, httpJoins, rollsLeft, lastActivity, emitted, clock>>

(***************************************************************************)
(* The specifications.                                                     *)
(*   Spec     : the server machine from a freshly created room: joins,     *)
(*              disconnects and the start of the game.                     *)
(*   SpecPlay : the server machine from the started rooms of the host and  *)
(*              one AI player: rolls and moves.                            *)
(*   SpecRoom : the server machine with every socket handler, from a       *)
(*              waiting room and from started rooms: joins, disconnects,   *)
(*              the start, rolls and moves.                                *)
(*   SpecGSM  : the manager machine.                                       *)
(*   SpecGSMConn : the manager machine of a three-player game, with the    *)
(*              connection calls and the abandonment.                      *)
(*   SpecGSMAI : the manager machine with the AI player's turn.            *)
(*   SpecFull : the server machine from a room created full.               *)
(*   SpecFn   : checkWinCondition and selectAIMove on drawn game states.   *)
(*   SpecSweep : the server machine with the clock and the cleanup         *)
(*              interval, next to a second room.                           *)
(*   SpecCalls : single calls of executeMove and of the manager's          *)
(*              functions on a game that carries its moveHistory.          *)
(*   SpecLive : a started room with the clock, the cleanup interval        *)
(*              scheduled fairly and the clients' intents not.             *)
(***************************************************************************)
GsmParked ==
  /\ game = createInitialGameState(GsmPlayers, <<Placement({}), Placement({})>>, 0)
  /\ result = Thrown("none", "none", "none")
  /\ calls = 0
  /\ aiTurn = AINone

SrvParked ==
  /\ CreateRoom(2, 1)
  /\ sockets = [s \in Sockets |-> [open |-> TRUE, roomId |-> Undefined,
                                   playerId |-> Undefined]]
  /\ reply = NoReply
  /\ lastActivity = "now"
  /\ clock = 0
  /\ gameRooms = OneRoom
  /\ emitted = << >>
  /\ httpJoins = 0
  /\ rollsLeft = 0


ServerSockets(joined) ==
  [s \in Sockets |->
     IF s \in joined THEN [open |-> TRUE, roomId |-> RoomId, playerId |-> HostId]
     ELSE [open |-> TRUE, roomId |-> Undefined, playerId |-> Undefined]]

Init ==
  /\ \E shape \in RoomShapes : CreateRoom(shape[1], shape[2])
  /\ sockets = ServerSockets({})
  /\ reply = NoReply
  /\ lastActivity = "now"
  /\ clock = 0
  /\ gameRooms = OneRoom
  /\ emitted = << >>
  /\ httpJoins = 0
  /\ rollsLeft = 0
  /\ GsmParked

(***************************************************************************)
(* The started rooms SpecPlay begins in: the room created with one AI      *)
(* player, joined by the host on socket 1 and started, then played to a    *)
(* board with no pending roll.  The red (host) pieces stand on a subset of *)
(* {10, 48}, the blue (AI) pieces on a subset of {13, 14}, the rest at     *)
(* Home: the handler moves a piece by any accepted roll and sends nothing  *)
(* Home, so rolls and moves from the fresh board reach each of them.       *)
(***************************************************************************)
PlayRedCellSets == SUBSET {10, 48}
PlayBlueCellSets == SUBSET {13, 14}

InitPlay ==
  /\ players = [CreatePlayers(1) EXCEPT ![1].socketId = 1]
  /\ maxPlayers = 2
  /\ roomGameState = "playing"
  /\ \E R \in PlayRedCellSets, B \in PlayBlueCellSets, turn \in {0, 1} :
        gameStateData = [gamePhase    |-> "playing",
                         pieces       |-> BoardOf(CreatePlayers(1),
                                                  <<Placement(R), Placement(B)>>),
                         currentTurn  |-> turn,
                         winner       |-> Null,
                         lastDiceRoll |-> NoRoll]
  /\ sockets = ServerSockets({1})
  /\ reply = NoReply
  /\ lastActivity = "now"
  /\ clock = 0
  /\ gameRooms = OneRoom
  /\ emitted = << >>
  /\ httpJoins = 0
  /\ rollsLeft = MaxPlayRolls
  /\ GsmParked

Next ==
  \/ \E s \in Sockets, playerId \in PayloadIds \cup NewPlayerIds :
        JoinRoom(s, playerId) /\ UNCHANGED gsmVars
  \/ \E s \in Sockets : Disconnect(s) /\ UNCHANGED gsmVars
  \/ HttpJoin /\ UNCHANGED gsmVars
  \/ \E s \in Sockets : StartGame(s) /\ UNCHANGED gsmVars

PlayNext ==
  \/ \E playerId \in PayloadIds : RollDice(playerId) /\ UNCHANGED gsmVars
  \/ \E playerId \in PayloadIds, pieceId \in PayloadPieceIds,
        diceValue \in DicePayloads(gameStateData.lastDiceRoll) :
        MovePiece(playerId, pieceId, diceValue) /\ UNCHANGED gsmVars

(***************************************************************************)
(* SpecRoom: every socket handler on one room of two seats.  It begins     *)
(* either in the room the host just created alone (waiting), or in the     *)
(* room of the host and one AI player that the host joined on socket 1,    *)
(* started and played to the board with the first red piece on 10 and the *)
(* first blue piece on 14, at the turn of the AI player.                   *)
(***************************************************************************)
RoomRedCellSets == {{10}}
RoomBlueCellSets == {{14}}

\* movePiece payloads of SpecRoom: the first piece of either colour, or none
RoomPieceIds ==
  {PieceId(gameStateData.pieces[i]) :
     i \in {j \in DOMAIN gameStateData.pieces : gameStateData.pieces[j].pieceNumber = 1}}
    \cup {NoPiece}

InitRoom ==
  /\ maxPlayers = 2
  /\ \/ /\ players = CreatePlayers(0)
        /\ roomGameState = "waiting"
        /\ gameStateData = [gamePhase    |-> "waiting",
                            pieces       |-> initializeGamePieces(CreatePlayers(0)),
                            currentTurn  |-> 0,
                            winner       |-> Null,
                            lastDiceRoll |-> NoRoll]
        /\ sockets = ServerSockets({})
     \/ /\ players = [CreatePlayers(1) EXCEPT ![1].socketId = 1]
        /\ roomGameState = "playing"
        /\ \E R \in RoomRedCellSets, B \in RoomBlueCellSets, turn \in {1} :
              gameStateData = [gamePhase    |-> "playing",
                               pieces       |-> BoardOf(CreatePlayers(1),
                                                        <<Placement(R), Placement(B)>>),
                               currentTurn  |-> turn,
                               winner       |-> Null,
                               lastDiceRoll |-> NoRoll]
        /\ sockets = ServerSockets({1})
  /\ reply = NoReply
  /\ lastActivity = "now"
  /\ clock = 0
  /\ gameRooms = OneRoom
  /\ emitted = << >>
  /\ httpJoins = 0
  /\ rollsLeft = MaxRoomRolls
  /\ GsmParked

RoomNext ==
  \/ \E s \in Sockets, playerId \in PayloadIds \cup NewPlayerIds :
        JoinRoom(s, playerId) /\ UNCHANGED gsmVars
  \/ \E s \in Sockets : Disconnect(s) /\ UNCHANGED gsmVars
  \/ \E s \in Sockets : StartGame(s) /\ UNCHANGED gsmVars
  \/ \E playerId \in PayloadIds : RollDice(playerId) /\ UNCHANGED gsmVars
  \/ \E playerId \in PayloadIds, pieceId \in RoomPieceIds,
        diceValue \in DicePayloads(gameStateData.lastDiceRoll) :
        MovePiece(playerId, pieceId, diceValue) /\ UNCHANGED gsmVars

GsmNextStep ==
  \/ \E playerId \in GsmPlayerIds : GsmHandleDiceRoll(playerId) /\ UNCHANGED <<srvVars, aiTurn>>
  \/ \E playerId \in GsmPlayerIds, pieceId \in GsmPieceIds,
        diceValue \in DicePayloads(game.lastDiceRoll) :
        GsmHandlePieceMove(playerId, pieceId, diceValue) /\ UNCHANGED <<srvVars, aiTurn>>
  \/ GsmHandleAIPlayerTurn /\ UNCHANGED <<srvVars, aiTurn>>

Spec == Init /\ [][Next]_vars

\* the lobby of a room created with four seats and three AI players: a
\* player of every colour from the start
InitFull ==
  /\ CreateRoom(4, 3)
  /\ sockets = ServerSockets({})
  /\ reply = NoReply
  /\ lastActivity = "now"
  /\ clock = 0
  /\ gameRooms = OneRoom
  /\ emitted = << >>
  /\ httpJoins = 0
  /\ rollsLeft = 0
  /\ GsmParked

SpecFull == InitFull /\ [][Next]_vars

SpecPlay == InitPlay /\ [][PlayNext]_vars

SpecRoom == InitRoom /\ [][RoomNext]_vars

InitGSMConn == GsmConnInit /\ SrvParked

GsmConnNext ==
  \/ \E playerId \in GsmConnPlayerIds : GsmHandleDiceRoll(playerId) /\ UNCHANGED <<srvVars, aiTurn>>
  \/ \E playerId \in GsmConnPlayerIds, pieceId \in GsmConnPieceIds,
        diceValue \in DicePayloads(game.lastDiceRoll) :
        GsmHandlePieceMove(playerId, pieceId, diceValue) /\ UNCHANGED <<srvVars, aiTurn>>
  \/ GsmHandleAIPlayerTurn /\ UNCHANGED <<srvVars, aiTurn>>
  \/ \E playerId \in GsmConnPlayerIds, connected \in BOOLEAN :
        GsmUpdatePlayerConnection(playerId, connected) /\ UNCHANGED <<srvVars, aiTurn>>
  \/ GsmAbandonGame /\ UNCHANGED <<srvVars, aiTurn>>

SpecGSMConn == InitGSMConn /\ [][GsmConnNext]_vars

InitGSMAI == GsmAIInit /\ SrvParked

GsmAINext ==
  \/ \E playerId \in GsmPlayerIds : GsmAIHandleDiceRoll(playerId) /\ UNCHANGED srvVars
  \/ \E playerId \in GsmPlayerIds, pieceId \in GsmConnPieceIds,
        diceValue \in DicePayloads(game.lastDiceRoll) :
        GsmAIHandlePieceMove(playerId, pieceId, diceValue) /\ UNCHANGED srvVars
  \/ GsmAIBegin /\ UNCHANGED srvVars
  \/ GsmAIFinish /\ UNCHANGED srvVars
  \/ \E playerId \in GsmPlayerIds, connected \in BOOLEAN :
        GsmAIUpdatePlayerConnection(playerId, connected) /\ UNCHANGED srvVars
  \/ GsmAIAbandonGame /\ UNCHANGED srvVars

SpecGSMAI == InitGSMAI /\ [][GsmAINext]_vars

InitFn == GsmFnInit /\ SrvParked

FnNext ==
  \/ \E playerId \in FnPlayerIds : GsmCheckWinCondition(playerId) /\ UNCHANGED srvVars
  \/ \E playerId \in FnPlayerIds, diceValue \in Dice, difficulty \in AI_DIFFICULTY :
        GsmSelectAIMove(playerId, diceValue, difficulty) /\ UNCHANGED srvVars

SpecFn == InitFn /\ [][FnNext]_vars

\* the map of two rooms the cleanup is explored on: the room RoomId created
\* with one AI player, no connection in it yet
InitSweep ==
  /\ CreateRoom(2, 1)
  /\ sockets = ServerSockets({})
  /\ reply = NoReply
  /\ lastActivity = "earlier"
  /\ clock = 0
  /\ gameRooms = TwoRooms
  /\ emitted = << >>
  /\ httpJoins = 0
  /\ rollsLeft = MaxRoomRolls
  /\ GsmParked

\* the connection the host uses while the cleanup is explored
SweepSockets == {1}

SweepNext ==
  \/ \E s \in SweepSockets, playerId \in {HostId} :
        JoinRoom(s, playerId) /\ UNCHANGED gsmVars
  \/ \E s \in SweepSockets : Disconnect(s) /\ UNCHANGED gsmVars
  \/ \E s \in SweepSockets : StartGame(s) /\ UNCHANGED gsmVars
  \/ \E playerId \in PayloadIds : RollDice(playerId) /\ UNCHANGED gsmVars
  \/ \E playerId \in PayloadIds, pieceId \in RoomPieceIds,
        diceValue \in DicePayloads(gameStateData.lastDiceRoll) :
        MovePiece(playerId, pieceId, diceValue) /\ UNCHANGED gsmVars
  \/ JoinOtherRoom /\ UNCHANGED gsmVars
  \/ Tick /\ UNCHANGED gsmVars
  \/ CleanupRooms /\ UNCHANGED gsmVars

SpecSweep == InitSweep /\ [][SweepNext]_vars

InitCalls == CallsInit /\ SrvParked

CallsNext ==
  \/ \E playerId \in FnPlayerIds, pieceId \in GsmPieceIds, steps \in Dice :
        CallExecuteMove(playerId, pieceId, steps) /\ UNCHANGED <<srvVars, aiTurn>>
  \/ \E playerId \in FnPlayerIds :
        CallHandleDiceRoll(playerId) /\ UNCHANGED <<srvVars, aiTurn>>
  \/ \E playerId \in FnPlayerIds, pieceId \in GsmPieceIds,
        diceValue \in DicePayloads(game.lastDiceRoll) :
        CallHandlePieceMove(playerId, pieceId, diceValue) /\ UNCHANGED <<srvVars, aiTurn>>
  \/ \E playerId \in FnPlayerIds, connected \in BOOLEAN :
        CallUpdatePlayerConnection(playerId, connected) /\ UNCHANGED <<srvVars, aiTurn>>
  \/ CallAbandonGame /\ UNCHANGED <<srvVars, aiTurn>>

SpecCalls == InitCalls /\ [][CallsNext]_vars

\* a started room of the host (on socket 1) and one AI player, the first red
\* piece on 10 and the first blue piece on 14, at the host's turn
InitLive ==
  /\ players = [CreatePlayers(1) EXCEPT ![1].socketId = 1]
  /\ maxPlayers = 2
  /\ roomGameState = "playing"
  /\ gameStateData = [gamePhase    |-> "playing",
                      pieces       |-> BoardOf(CreatePlayers(1),
                                               <<Placement({10}), Placement({14})>>),
                      currentTurn  |-> 0,
                      winner       |-> Null,
                      lastDiceRoll |-> NoRoll]
  /\ sockets = ServerSockets({1})
  /\ reply = NoReply
  /\ lastActivity = "now"
  /\ clock = 0
  /\ gameRooms = OneRoom
  /\ emitted = << >>
  /\ httpJoins = 0
  /\ rollsLeft = MaxPlayRolls
  /\ GsmParked

\* the intents of the clients, and what the server does by itself: the
\* cleanup interval
LiveNext ==
  \/ \E playerId \in PayloadIds : RollDice(playerId) /\ UNCHANGED gsmVars
  \/ \E playerId \in PayloadIds, pieceId \in RoomPieceIds,
        diceValue \in DicePayloads(gameStateData.lastDiceRoll) :
        MovePiece(playerId, pieceId, diceValue) /\ UNCHANGED gsmVars
  \/ Tick /\ UNCHANGED gsmVars
  \/ CleanupRooms /\ UNCHANGED gsmVars

\* no client owes the server an intent; the interval timer fires again and
\* again
SpecLive ==
  /\ InitLive
  /\ [][LiveNext]_vars
  /\ WF_vars(Tick /\ UNCHANGED gsmVars)
  /\ WF_vars(CleanupRooms /\ UNCHANGED gsmVars)

InitGSM ==
  /\ GsmInit
  /\ SrvParked

SpecGSM == InitGSM /\ [][GsmNextStep]_vars

(***************************************************************************)
(* The steps the claims speak of.                                          *)
(***************************************************************************)
\* the server accepted the intent `op` in this step
ServerAccepted(op) == reply' = [op |-> op, error |-> "none"]
\* the server rejected the intent `op` in this step
ServerRejected(op) == reply'.op = op /\ reply'.error # "none"
\* the manager call `op` returned (did not throw) in this step
GsmReturned(op) == result'.op = op /\ result'.error = "none" /\ calls' = calls + 1

\* the room as the rules engine sees it
RoomState ==
  [players      |-> players,
   pieces       |-> gameStateData.pieces,
   currentTurn  |-> gameStateData.currentTurn,
   gamePhase    |-> gameStateData.gamePhase,
   winner       |-> gameStateData.winner,
   lastDiceRoll |-> gameStateData.lastDiceRoll]

Positions(pieces_) == [k \in DOMAIN pieces_ |-> pieces_[k].position]

(***************************************************************************)
(* C1: a roll is accepted (server rollDice, handleDiceRoll) only in the    *)
(* playing phase, for the player at index currentTurn, and only when that  *)
(* player has no pending roll recorded; the accepted roll stores a value   *)
(* in 1..6 as the pending roll of that player.                             *)
(***************************************************************************)
C1_RollOnlyWithoutPendingRoll ==
  [][ /\ (ServerAccepted("rollDice") /\ rollsLeft' # rollsLeft) =>
           /\ roomGameState = "playing"
           /\ gameStateData.gamePhase = "playing"
           /\ gameStateData'.lastDiceRoll.playerId \in
                {players[gameStateData.currentTurn + 1].id,
                 players[gameStateData.currentTurn + 1].uuid}
           /\ gameStateData.lastDiceRoll = NoRoll
           /\ gameStateData'.lastDiceRoll.value \in DICE_MIN..DICE_MAX
      /\ GsmReturned("handleDiceRoll") =>
           /\ game.gamePhase = "playing"
           /\ game.players[game.currentTurn + 1].id = result'.playerId
           /\ game.lastDiceRoll = NoRoll
           /\ game'.lastDiceRoll = [playerId |-> result'.playerId,
                                    value    |-> result'.diceValue]
           /\ result'.diceValue \in DICE_MIN..DICE_MAX ]_vars

(***************************************************************************)
(* C2: a move is accepted (server movePiece, handlePieceMove/executeMove)  *)
(* only when the room is playing, the mover is the player at currentTurn   *)
(* and the owner of the pending roll, the supplied diceValue equals the    *)
(* stored roll value and the piece belongs to the mover; in every other    *)
(* case the move changes no piece position.                                *)
(***************************************************************************)
C2_MoveOnlyOwnPieceOnOwnRoll ==
  [][ /\ reply'.op = "movePiece" /\ reply' # reply =>
           \/ Positions(gameStateData'.pieces) = Positions(gameStateData.pieces)
           \/ /\ ServerAccepted("movePiece")
              /\ roomGameState = "playing"
              /\ gameStateData.lastDiceRoll # NoRoll
              /\ gameStateData.lastDiceRoll.playerId \in
                   {players[gameStateData.currentTurn + 1].id,
                    players[gameStateData.currentTurn + 1].uuid}
              /\ \A k \in DOMAIN gameStateData.pieces :
                    gameStateData'.pieces[k].position # gameStateData.pieces[k].position
                      => gameStateData.pieces[k].playerId
                           = gameStateData.lastDiceRoll.playerId
      /\ result'.op = "handlePieceMove" =>
           \/ Positions(game'.pieces) = Positions(game.pieces)
           \/ /\ GsmReturned("handlePieceMove")
              /\ game.gamePhase = "playing"
              /\ game.players[game.currentTurn + 1].id = result'.playerId
              /\ game.lastDiceRoll = [playerId |-> result'.playerId,
                                      value    |-> result'.diceValue]
              /\ result'.pieceId[1] = result'.playerId ]_vars

(***************************************************************************)
(* C3: a playing room never gets stuck on a roll: in every reachable       *)
(* playing state whose current player is connected, some rollDice or       *)
(* movePiece intent of that player is accepted (a roll that lets no piece  *)
(* move is consumed and the turn forfeited).                               *)
(***************************************************************************)
C3_SomeIntentOfCurrentPlayerAccepted ==
  (/\ roomGameState = "playing"
   /\ gameStateData.gamePhase = "playing"
   /\ players[gameStateData.currentTurn + 1].connected) =>
     LET playerId == players[gameStateData.currentTurn + 1].id
     IN \/ RollDiceError(playerId) = "none"
        \/ \E pieceId \in PayloadPieceIds, diceValue \in Dice :
              MovePieceError(playerId, pieceId, diceValue) = "none"

(***************************************************************************)
(* C4: after every accepted move (server movePiece, handlePieceMove) and   *)
(* every AI turn (handleAIPlayerTurn, its no-valid-moves path included)    *)
(* the pending roll is cleared and currentTurn is unchanged when the roll  *)
(* was 6 or a piece was captured, and is the next player's index           *)
(* otherwise.                                                              *)
(***************************************************************************)
\* the pieces a step sent Home
SentHome(before, after) ==
  {k \in DOMAIN before : before[k].position # HOME_POSITION
                         /\ after[k].position = HOME_POSITION}

C4_TurnAdvancesIffNoExtraTurn ==
  [][ /\ ServerAccepted("movePiece") =>
           /\ gameStateData'.lastDiceRoll = NoRoll
           /\ gameStateData'.currentTurn =
                IF \/ gameStateData.lastDiceRoll.value = 6
                   \/ SentHome(gameStateData.pieces, gameStateData'.pieces) # {}
                THEN gameStateData.currentTurn
                ELSE (gameStateData.currentTurn + 1) % Len(players)
      /\ (GsmReturned("handlePieceMove") \/ GsmReturned("handleAIPlayerTurn")) =>
           /\ game'.lastDiceRoll = NoRoll
           /\ game'.currentTurn =
                IF result'.diceValue = 6 \/ result'.cutPieces # {}
                THEN game.currentTurn
                ELSE (game.currentTurn + 1) % Len(game.players) ]_vars

(***************************************************************************)
(* C5: for every reachable state and every movePiece intent that passes    *)
(* the turn, roll and ownership checks, the server handler agrees with the *)
(* rules engine: it accepts the move iff getValidMoves holds a move of     *)
(* that piece, and the position it gives the piece is getNextPosition's.   *)
(***************************************************************************)
C5_ServerMoveAgreesWithRules ==
  \A playerId \in PayloadIds, pieceId \in PayloadPieceIds, diceValue \in Dice :
     MovePieceError(playerId, pieceId, diceValue)
         \in {"none", "Need a 6 to move piece out of home"} =>
       LET k     == PieceIndexById(gameStateData.pieces, pieceId)
           piece == gameStateData.pieces[k]
           color == players[gameStateData.currentTurn + 1].color
           legal == {m \in getValidMoves(RoomState, playerId, diceValue) :
                       m.pieceId = pieceId}
       IN /\ (MovePieceError(playerId, pieceId, diceValue) = "none") <=> (legal # {})
          /\ MovePieceError(playerId, pieceId, diceValue) = "none" =>
               ServerNewPosition(piece.position, diceValue, color)
                 = getNextPosition(piece.position, diceValue, color)

(***************************************************************************)
(* C6: in every room state reached through accepted moves no two pieces of *)
(* one colour stand on the same shared-path cell (0..51), the colour's     *)
(* start cell included.                                                    *)
(***************************************************************************)
C6_NoSameColorPiecesOnOneCell ==
  \A i, j \in DOMAIN gameStateData.pieces :
     (/\ i # j
      /\ gameStateData.pieces[i].playerColor = gameStateData.pieces[j].playerColor
      /\ gameStateData.pieces[i].position = gameStateData.pieces[j].position)
       => gameStateData.pieces[i].position \notin 0..(BOARD_SIZE - 1)

(***************************************************************************)
(* C7: after an accepted movePiece whose destination is a shared-path cell *)
(* that is not safe and holds pieces of other colours, each of those       *)
(* pieces is at Home, the moved piece is on the destination and            *)
(* currentTurn is unchanged.                                               *)
(***************************************************************************)
C7_MoveOntoOpponentCaptures ==
  [][ ServerAccepted("movePiece") =>
        \A k \in DOMAIN gameStateData.pieces :
           LET piece    == gameStateData.pieces[k]
               dest     == gameStateData'.pieces[k].position
               opposing == {j \in DOMAIN gameStateData.pieces :
                              /\ gameStateData.pieces[j].position = dest
                              /\ gameStateData.pieces[j].playerColor # piece.playerColor}
           IN (/\ dest # piece.position
               /\ dest \in 0..(BOARD_SIZE - 1)
               /\ ~isSafePosition(dest)
               /\ opposing # {}) =>
                 /\ \A j \in opposing :
                       gameStateData'.pieces[j].position = HOME_POSITION
                 /\ gameStateData'.currentTurn = gameStateData.currentTurn ]_vars

(***************************************************************************)
(* C8: no capture happens on a safe cell or in a home stretch: for every   *)
(* move executeMove applies whose destination is one of the safe cells 0,  *)
(* 8, 13, 21, 26, 34, 39, 47 or a home-stretch cell 52..57, the captured   *)
(* set is empty and every other piece keeps its position.                  *)
(***************************************************************************)
GsmMoved ==
  \/ GsmReturned("handlePieceMove")
  \/ GsmReturned("handleAIPlayerTurn") /\ result'.type = "move"

ProtectedCells == {0, 8, 13, 21, 26, 34, 39, 47} \cup (52..57)

C8_NoCaptureOnSafeOrHomeStretch ==
  [][ GsmMoved =>
        LET k    == PieceIndexById(game.pieces, result'.pieceId)
            dest == game'.pieces[k].position
        IN dest \in ProtectedCells =>
             /\ result'.cutPieces = {}
             /\ \A j \in DOMAIN game.pieces :
                   j # k => game'.pieces[j].position = game.pieces[j].position ]_vars

\* a move has just put a piece on a safe cell or a home-stretch cell number
\* on which a piece of another colour stands, and that piece is still there
C8_Witness ==
  /\ result.op = "handlePieceMove"
  /\ result.error = "none"
  /\ LET k == PieceIndexById(game.pieces, result.pieceId)
     IN /\ game.pieces[k].position \in {0, 8, 13, 21, 26, 34, 39, 47}
        /\ \E j \in DOMAIN game.pieces :
              /\ game.pieces[j].playerColor # game.pieces[k].playerColor
              /\ game.pieces[j].position = game.pieces[k].position

(***************************************************************************)
(* C9: whenever an accepted move leaves all four pieces of the mover on    *)
(* the terminal cell 57, the phase becomes finished with the mover as      *)
(* winner; from then on every roll and move is rejected and the winner     *)
(* never changes.  (The manager: the server's movePiece never puts a piece *)
(* on 57.)                                                                 *)
(***************************************************************************)
AllOnTerminalCell(gameState, playerId) ==
  /\ \E i \in DOMAIN gameState.pieces : gameState.pieces[i].playerId = playerId
  /\ \A i \in DOMAIN gameState.pieces :
        gameState.pieces[i].playerId = playerId => gameState.pieces[i].position = 57

C9_WinFinishesAndFreezes ==
  [][ /\ (GsmMoved /\ AllOnTerminalCell(game', result'.playerId)) =>
           /\ game'.gamePhase = "finished"
           /\ game'.winner = result'.playerId
      /\ game.gamePhase = "finished" =>
           /\ result'.error # "none"
           /\ game' = game ]_vars

\* a call was rejected in a game that a move of a1 finished with a1 as winner
C9_Witness ==
  /\ game.gamePhase = "finished"
  /\ game.winner = "a1"
  /\ AllOnTerminalCell(game, "a1")
  /\ result.error = "Game is not in playing state"

(***************************************************************************)
(* C10: startGame is accepted only when the caller is the room's host, the *)
(* room is waiting and holds at least 2 players of which at least 1 is     *)
(* human; an accepted start sets the phase to playing, currentTurn to 0    *)
(* and clears the pending roll; a rejected start changes nothing.          *)
(***************************************************************************)
CallerIsHost(s) ==
  \E i \in DOMAIN players :
     /\ players[i].isHost
     /\ sockets[s].playerId # Undefined
     /\ sockets[s].playerId \in {players[i].id, players[i].uuid}

C10_StartGameGuardsAndEffect ==
  [][ /\ \A s \in Sockets :
           StartGameError(s) = "none" =>
             /\ CallerIsHost(s)
             /\ roomGameState = "waiting"
             /\ Len(players) >= 2
             /\ \E i \in DOMAIN players : ~players[i].isAI
      /\ \A s \in Sockets :
           (~CallerIsHost(s) \/ roomGameState # "waiting") => StartGameError(s) # "none"
      /\ ServerAccepted("startGame") =>
           /\ roomGameState = "waiting"
           /\ roomGameState' = "playing"
           /\ gameStateData'.gamePhase = "playing"
           /\ gameStateData'.currentTurn = 0
           /\ gameStateData'.lastDiceRoll = NoRoll
      /\ ServerRejected("startGame") =>
           UNCHANGED <<players, maxPlayers, roomGameState, gameStateData, sockets>> ]_vars

\* the host has just started a room of one human and one AI player
C10_Witness ==
  /\ reply = [op |-> "startGame", error |-> "none"]
  /\ roomGameState = "playing"
  /\ gameStateData.currentTurn = 0
  /\ Len(players) = 2
  /\ players[2].isAI


(***************************************************************************)
(* C11: reconnection never duplicates a player.  The room holds at most    *)
(* one Player per identity, and an accepted joinRoom whose playerId        *)
(* matches an existing Player, in any phase, only re-attaches the          *)
(* connection and sets connected = true: the number of players, every      *)
(* player's colour, host flag and index in the turn order, and all piece   *)
(* positions are what they were.                                           *)
(***************************************************************************)
Seat(player) ==
  [id |-> player.id, uuid |-> player.uuid, color |-> player.color,
   isHost |-> player.isHost, isAI |-> player.isAI]

C11_ReconnectNeverDuplicates ==
  [][ /\ \A i, j \in DOMAIN players' : players'[i].id = players'[j].id => i = j
      /\ ServerAccepted("joinRoom") =>
          \A s \in Sockets, playerId \in PayloadIds :
           LET idx == PlayerIndexByIdOrUuid(players, playerId)
           IN (idx # 0 /\ JoinRoom(s, playerId)) =>
                /\ Len(players') = Len(players)
                /\ \A i \in DOMAIN players : Seat(players'[i]) = Seat(players[i])
                /\ players'[idx].connected
                /\ players'[idx].socketId = s
                /\ \A i \in DOMAIN players \ {idx} : players'[i] = players[i]
                /\ gameStateData' = gameStateData
                /\ roomGameState' = roomGameState ]_vars

\* the host, dropped from socket 1 in a started game with a red piece on 10,
\* is back on socket 2
C11_Witness ==
  /\ reply = [op |-> "joinRoom", error |-> "none"]
  /\ roomGameState = "playing"
  /\ Len(players) = 2
  /\ players[2].isAI
  /\ players[1].connected
  /\ players[1].socketId = 2
  /\ gameStateData.pieces[1].position = 10

(***************************************************************************)
(* C12: a joinRoom for a playerId whose Player is attached to a different  *)
(* live connection is rejected; the original connection stays attached     *)
(* and connected, and the rejected connection is not subscribed to the     *)
(* room's broadcasts: it receives nothing and joins no room.               *)
(***************************************************************************)
C12_SecondSessionRejected ==
  [][ reply'.op = "joinRoom" =>
      \A s \in Sockets, playerId \in PayloadIds \cup NewPlayerIds :
        LET idx == PlayerIndexByIdOrUuid(players, playerId)
        IN (/\ idx # 0
            /\ players[idx].socketId \in Sockets \ {s}
            /\ sockets[players[idx].socketId].open
            /\ JoinRoom(s, playerId)) =>
             /\ reply' = [op |-> "joinRoom",
                          error |-> "Player already connected from another session"]
             /\ players' = players
             /\ players'[idx].connected
             /\ sockets' = sockets
             /\ Subscribers(sockets') = Subscribers(sockets)
             /\ emitted' = << >> ]_vars

\* the host is attached to an open socket, and another open socket that is in
\* no room has just been turned away
C12_Witness ==
  /\ reply = [op |-> "joinRoom",
              error |-> "Player already connected from another session"]
  /\ \E t \in Sockets :
        /\ players[1].socketId = t
        /\ players[1].connected
        /\ sockets[t].open
        /\ \E s \in Sockets \ {t} :
              /\ sockets[s].open
              /\ s \notin Subscribers(sockets)

(***************************************************************************)
(* C13: a join creates a new Player only while the room is waiting and has *)
(* capacity: after any sequence of HTTP joins and joinRoom intents on a    *)
(* created room the number of players, human and AI, never exceeds         *)
(* maxPlayers (at most 4), and a joinRoom by an unknown identity after the *)
(* game has started is rejected.                                           *)
(***************************************************************************)
C13_PlayersWithinCapacity ==
  [][ /\ Len(players') <= maxPlayers'
      /\ maxPlayers' <= MAX_PLAYERS
      /\ Len(players') > Len(players) =>
            (roomGameState = "waiting" /\ Len(players) < maxPlayers)
      /\ \A s \in Sockets, playerId \in PayloadIds \cup NewPlayerIds :
           (/\ PlayerIndexByIdOrUuid(players, playerId) = 0
            /\ roomGameState # "waiting"
            /\ JoinRoom(s, playerId)) => reply'.error # "none" ]_vars

(***************************************************************************)
(* C14: a disconnect marks the Player attached to the disconnecting        *)
(* connection connected = false and detaches the connection from it, and   *)
(* changes nothing else: the players list (length and order), every piece  *)
(* position, the phase, currentTurn and the pending roll are unchanged.    *)
(***************************************************************************)
C14_DisconnectOnlyDetaches ==
  [][ \A s \in Sockets :
        Disconnect(s) =>
          /\ Len(players') = Len(players)
          /\ \A i \in DOMAIN players :
                /\ Seat(players'[i]) = Seat(players[i])
                /\ players[i].socketId = s =>
                      (~players'[i].connected /\ players'[i].socketId = NoSocket)
                /\ players[i].socketId # s => players'[i] = players[i]
          /\ gameStateData' = gameStateData
          /\ roomGameState' = roomGameState ]_vars

(***************************************************************************)
(* C15: in every game state, for every player, every roll in 1..6 and      *)
(* every piece of that player at Home, getValidMoves contains a move for   *)
(* that piece if and only if the roll is 6, and the destination of that    *)
(* move is the start cell of the piece's colour.                           *)
(***************************************************************************)
C15_HomePieceMovesIffSix ==
  \A playerId \in GsmPlayerIds, diceValue \in Dice, i \in DOMAIN game.pieces :
    (game.pieces[i].playerId = playerId /\ game.pieces[i].position = HOME_POSITION) =>
      LET moves == {m \in getValidMoves(game, playerId, diceValue) :
                      m.pieceId = PieceId(game.pieces[i])}
      IN /\ (moves # {}) <=> (diceValue = 6)
         /\ \A m \in moves :
               m.toPosition = PLAYER_START_POSITIONS[game.pieces[i].playerColor]

(***************************************************************************)
(* C16: whenever the turn passes (the turn advance of the server's         *)
(* movePiece handler, getNextPlayerTurn in the manager), the new           *)
(* currentTurn is the first player after the current one in cyclic join    *)
(* order whose connected flag is true; if every other player is            *)
(* disconnected and the current player is connected it stays with the      *)
(* current player; the result is an index in 0..n-1.                       *)
(***************************************************************************)
\* the first index after currentTurn, cyclically, of a connected player; the
\* walk ends on currentTurn itself
FirstConnectedAfter(currentTurn, players_) ==
  LET n     == Len(players_)
      steps == {k \in 1..n : players_[((currentTurn + k) % n) + 1].connected}
  IN (currentTurn + (CHOOSE k \in steps : \A j \in steps : k <= j)) % n

SomeoneConnected(players_) == \E i \in DOMAIN players_ : players_[i].connected

C16_TurnPassesToNextConnected ==
  [][ (ServerAccepted("movePiece") /\ gameStateData.lastDiceRoll.value # 6) =>
        /\ gameStateData'.currentTurn \in 0..(Len(players) - 1)
        /\ SomeoneConnected(players) =>
              gameStateData'.currentTurn =
                FirstConnectedAfter(gameStateData.currentTurn, players) ]_vars

(***************************************************************************)
(* C17: in every reachable state the pending roll (lastDiceRoll) is        *)
(* non-null only while the phase is playing, and whenever it is non-null   *)
(* its playerId identifies the player at index currentTurn; across rolls,  *)
(* moves, forfeits, connection changes, a win and abandonment.             *)
(***************************************************************************)
C17_PendingRollOnlyOfCurrentPlayerWhilePlaying ==
  game.lastDiceRoll # NoRoll =>
    /\ game.gamePhase = "playing"
    /\ game.lastDiceRoll.playerId = game.players[game.currentTurn + 1].id

(***************************************************************************)
(* C18: after every connectivity change (a disconnect or a reconnect), in  *)
(* any phase, the room is Abandoned if zero connected human players        *)
(* remain, or if exactly one connected human remains and the room has      *)
(* zero AI players; in no other situation does a connectivity change       *)
(* abandon the room.                                                       *)
(***************************************************************************)
AllHumansGone(players_) ==
  LET connectedHumans == {i \in DOMAIN players_ :
                            ~players_[i].isAI /\ players_[i].connected}
      ais == {i \in DOMAIN players_ : players_[i].isAI}
  IN \/ connectedHumans = {}
     \/ Cardinality(connectedHumans) = 1 /\ ais = {}

ConnectivityChanged ==
  \E i \in DOMAIN players \cap DOMAIN players' :
    players'[i].connected # players[i].connected

C18_AbandonedIffAllHumansGone ==
  [][ ConnectivityChanged =>
        ((roomGameState' = "abandoned" \/ gameStateData'.gamePhase = "abandoned")
           <=> AllHumansGone(players')) ]_vars

C20_AcceptedBroadcastsStoredState ==
  (reply.error = "none" /\ reply.op \in {"joinRoom", "startGame", "rollDice", "movePiece"}) =>
    /\ lastActivity = "now"
  /\ clock = 0
  /\ gameRooms = OneRoom
    /\ \E k \in DOMAIN emitted :
          /\ emitted[k].event = "gameStateUpdate"
          /\ emitted[k].to = {s \in Sockets : sockets[s].open /\ sockets[s].roomId = RoomId}
          /\ emitted[k].data = [players |-> players, gameStateData |-> gameStateData]

\* a move has been accepted in a room that two connections are subscribed to
C20_Witness ==
  /\ reply = [op |-> "movePiece", error |-> "none"]
  /\ Cardinality({s \in Sockets : sockets[s].open /\ sockets[s].roomId = RoomId}) = 2
  /\ \E i \in DOMAIN gameStateData.pieces : gameStateData.pieces[i].position # HOME_POSITION


(***************************************************************************)
(* C21  The move handleAIPlayerTurn picks after the thinking delay is      *)
(* applied only if the game's phase and current turn are still those of    *)
(* the state the call rolled on: when a disconnect, an abandonment or a    *)
(* phase change happened during the delay, the call's result is discarded  *)
(* and the game keeps what that event did.                                 *)
(***************************************************************************)
AIFinishes == aiTurn # AINone /\ aiTurn' = AINone

ChangedDuringDelay ==
  /\ aiTurn # AINone
  /\ \/ game.gamePhase # aiTurn.gameState.gamePhase
     \/ game.currentTurn # aiTurn.gameState.currentTurn

C21_StaleAIActionDiscarded ==
  [][AIFinishes /\ ChangedDuringDelay => game' = game]_vars


(***************************************************************************)
(* C22  The intents for a room take effect one after the other: when a     *)
(* rollDice of the current player, a movePiece for the pending roll or a   *)
(* joinRoom of a new identity has been accepted, the same intent arriving  *)
(* again (for joinRoom: from another connection) is rejected, so no state  *)
(* holds the effect of both.                                               *)
(***************************************************************************)
SecondRollRejected ==
  reply = [op |-> "rollDice", error |-> "none"] =>
    /\ gameStateData.lastDiceRoll # NoRoll
    /\ RollDiceError(gameStateData.lastDiceRoll.playerId)
         = "You have already rolled the dice this turn"

SecondMoveRejected ==
  reply = [op |-> "movePiece", error |-> "none"] =>
    /\ gameStateData.lastDiceRoll = NoRoll
    /\ \A playerId \in PayloadIds, pieceId \in PayloadPieceIds, diceValue \in Dice :
         MovePieceError(playerId, pieceId, diceValue) # "none"

SecondJoinRejected ==
  reply = [op |-> "joinRoom", error |-> "none"] =>
    /\ \A i \in DOMAIN players :
         players[i].connected /\ players[i].socketId # NoSocket =>
           \A t \in Sockets \ {players[i].socketId} :
              JoinRoomError(t, players[i].id)
                = "Player already connected from another session"
    /\ \A i, j \in DOMAIN players : players[i].id = players[j].id => i = j

PiecesOnTerminalCell(playerId) ==
  {i \in DOMAIN game.pieces :
     game.pieces[i].playerId = playerId /\ game.pieces[i].position = FINISH_END}

C23_WinIffFourPiecesOnTerminalCell ==
  result.op = "checkWinCondition" =>
    (result.value <=>
       Cardinality(PiecesOnTerminalCell(result.playerId)) = PIECES_PER_PLAYER)


(***************************************************************************)
(* C24  selectAIMove, called for a player of the game, returns null        *)
(* exactly when getValidMoves is empty for the same state and roll; when   *)
(* it is not, in every difficulty tier the returned move has the pieceId   *)
(* and the toPosition of one of the valid moves.                           *)
(***************************************************************************)
SelectAIMoveReturned == result.op = "selectAIMove" /\ result.error = "none"

WinsGame(move, playerId) ==
  Cardinality({i \in DOMAIN game.pieces :
                 /\ game.pieces[i].playerId = playerId
                 /\ (IF PieceId(game.pieces[i]) = move.pieceId
                     THEN move.toPosition ELSE game.pieces[i].position) = FINISH_END})
    = PIECES_PER_PLAYER

\* the moves of the player's pieces, by getNextPosition, that end with all
\* four pieces of the player on the terminal cell
WinningMoves(playerId, diceValue) ==
  LET color == game.players[PlayerIndexById(game.players, playerId)].color
  IN {m \in {[pieceId      |-> PieceId(game.pieces[i]),
              fromPosition |-> game.pieces[i].position,
              toPosition   |-> getNextPosition(game.pieces[i].position, diceValue, color),
              cutPieces    |-> {}] :
               i \in {j \in DOMAIN game.pieces : game.pieces[j].playerId = playerId}} :
        m.toPosition # m.fromPosition /\ WinsGame(m, playerId)}

WinningMoveScoresHighest ==
  \A k \in DOMAIN game.players, diceValue \in Dice, difficulty \in {"medium", "hard"} :
     LET playerId == game.players[k].id
     IN \A m \in WinningMoves(playerId, diceValue) :
          \A other \in getValidMoves(game, playerId, diceValue) \ {m},
             jm \in JitterValues(difficulty), jo \in JitterValues(difficulty) :
             evaluateMove(m, game, playerId, game.players[k].color, difficulty, jm)
               >= evaluateMove(other, game, playerId, game.players[k].color,
                               difficulty, jo)

C25_WinningMoveIsForced ==
  /\ WinningMoveScoresHighest
  /\ SelectAIMoveReturned /\ result.difficulty \in {"medium", "hard"} =>
       (WinningMoves(result.playerId, result.diceValue) # {}
          => result.move \in WinningMoves(result.playerId, result.diceValue))


(***************************************************************************)
(* C26  In the hard tier, which has no random jitter, evaluateMove keeps   *)
(* the order of the priorities: among the valid moves of a state and roll, *)
(* every capturing move scores strictly above every move out of Home, and  *)
(* every move out of Home strictly above every ordinary advancement (a     *)
(* move that neither captures, nor leaves Home, nor lands on a safe cell); *)
(* so selectAIMove does not return a move of a lower kind when a move of a *)
(* higher kind is valid.                                                   *)
(***************************************************************************)
Captures(move) == move.cutPieces # {}
LeavesHome(move) == move.fromPosition = HOME_POSITION
OrdinaryAdvancement(move) ==
  ~Captures(move) /\ ~LeavesHome(move) /\ ~isSafePosition(move.toPosition)

HardScore(move, playerId) ==
  evaluateMove(move, game, playerId,
               game.players[PlayerIndexById(game.players, playerId)].color, "hard", 0)

C26_HardTierKeepsPriorityOrder ==
  SelectAIMoveReturned /\ result.difficulty = "hard" =>
    LET validMoves == getValidMoves(game, result.playerId, result.diceValue)
    IN /\ \A a, b \in validMoves :
            /\ Captures(a) /\ LeavesHome(b)
                 => HardScore(a, result.playerId) > HardScore(b, result.playerId)
            /\ LeavesHome(a) /\ OrdinaryAdvancement(b)
                 => HardScore(a, result.playerId) > HardScore(b, result.playerId)
       /\ (\E a \in validMoves : Captures(a))
            => ~LeavesHome(result.move) /\ ~OrdinaryAdvancement(result.move)
       /\ (\E a \in validMoves : LeavesHome(a)) => ~OrdinaryAdvancement(result.move)


(***************************************************************************)
(* C27  After any sequence of room creation, HTTP joins, joinRoom and      *)
(* startGame the room's pieces are exactly four per player and no others:  *)
(* pieces.length = 4 * players.length, the pieces of player k being the    *)
(* four after those of player k - 1, with that player's id and colour;     *)
(* and all pieces are at Home when the game starts.                        *)
(***************************************************************************)
FourPiecesPerPlayer ==
  /\ Len(gameStateData.pieces) = PIECES_PER_PLAYER * Len(players)
  /\ \A k \in DOMAIN players :
        Cardinality({i \in DOMAIN gameStateData.pieces :
                       /\ gameStateData.pieces[i].playerId = players[k].id
                       /\ gameStateData.pieces[i].playerColor = players[k].color})
          = PIECES_PER_PLAYER

C27_FourPiecesPerPlayer ==
  /\ FourPiecesPerPlayer
  /\ reply = [op |-> "startGame", error |-> "none"] =>
       \A i \in DOMAIN gameStateData.pieces :
          gameStateData.pieces[i].position = HOME_POSITION


(***************************************************************************)
(* C28  The players of a room have pairwise distinct colours, all among    *)
(* red, blue, green and yellow; a player who joins gets the first colour   *)
(* of that order that no player has and is appended at the end, the        *)
(* players before keeping their places.                                    *)
(***************************************************************************)
ColoursDistinct(players_) ==
  /\ \A i \in DOMAIN players_ :
        \E k \in DOMAIN PLAYER_COLORS : players_[i].color = PLAYER_COLORS[k]
  /\ \A i, j \in DOMAIN players_ : players_[i].color = players_[j].color => i = j

FirstUnusedColour(players_) ==
  PLAYER_COLORS[CHOOSE k \in DOMAIN PLAYER_COLORS :
                  /\ \A i \in DOMAIN players_ : players_[i].color # PLAYER_COLORS[k]
                  /\ \A l \in 1..(k - 1) :
                        \E i \in DOMAIN players_ : players_[i].color = PLAYER_COLORS[l]]

C28_DistinctColoursInJoinOrder ==
  [][ /\ ColoursDistinct(players')
      /\ Len(players') > Len(players) =>
           /\ Len(players') = Len(players) + 1
           /\ \A i \in DOMAIN players : players'[i].id = players[i].id
                                        /\ players'[i].color = players[i].color
           /\ \E k \in DOMAIN PLAYER_COLORS :
                 \A i \in DOMAIN players : players[i].color # PLAYER_COLORS[k]
           /\ players'[Len(players')].color = FirstUnusedColour(players) ]_vars


(***************************************************************************)
(* C29  The phase only moves forward, waiting -> playing -> finished or    *)
(* abandoned: only startGame leaves waiting, nothing returns to waiting    *)
(* or leaves finished or abandoned, winner is set only in the finished     *)
(* phase, and on the server room.gameState and gameStateData.gamePhase     *)
(* are equal.                                                              *)
(***************************************************************************)
PhaseMovesForward(before, after) ==
  \/ after = before
  \/ before = "waiting" /\ after = "playing"
  \/ before = "playing" /\ after \in {"finished", "abandoned"}

C29_PhaseOnlyMovesForward ==
  [][ /\ PhaseMovesForward(game.gamePhase, game'.gamePhase)
      /\ game'.winner # Null => game'.gamePhase = "finished"
      /\ PhaseMovesForward(roomGameState, roomGameState')
      /\ roomGameState = "waiting" /\ roomGameState' # "waiting"
           => reply' = [op |-> "startGame", error |-> "none"]
      /\ gameStateData'.winner # Null => gameStateData'.gamePhase = "finished"
      /\ roomGameState' = gameStateData'.gamePhase ]_vars

(***************************************************************************)
(* C30  The cleanup deletes a room only if, when it runs, the room's       *)
(* lastActivity is older than the timeout: an accepted join, start, roll   *)
(* or move stamps the room with the present time and the stamp never goes  *)
(* back, so a room with such an intent within the timeout stays; a         *)
(* deletion leaves every other room unchanged, a deleted room never        *)
(* returns, and every later joinRoom, startGame, rollDice or movePiece     *)
(* that names it is answered 'Room not found' and changes nothing.         *)
(***************************************************************************)
RoomIntents == {"joinRoom", "startGame", "rollDice", "movePiece"}

RoomContent == <<players, maxPlayers, roomGameState, gameStateData>>

IntentsOnDeletedRoomRejected ==
  /\ \A s \in Sockets, playerId \in PayloadIds \cup NewPlayerIds :
        JoinRoomError(s, playerId) = "Room not found"
  /\ \A s \in Sockets : StartGameError(s) = "Room not found"
  /\ \A playerId \in PayloadIds : RollDiceError(playerId) = "Room not found"
  /\ \A playerId \in PayloadIds, pieceId \in RoomPieceIds,
        diceValue \in DicePayloads(gameStateData.lastDiceRoll) :
        MovePieceError(playerId, pieceId, diceValue) = "Room not found"

C30_CleanupDeletesOnlyIdleRooms ==
  [][ /\ DOMAIN gameRooms' \subseteq DOMAIN gameRooms
      /\ \A r \in DOMAIN gameRooms \ DOMAIN gameRooms' :
            /\ clock - gameRooms[r].lastActivity > IdleTimeout
            /\ \A q \in DOMAIN gameRooms' : gameRooms'[q] = gameRooms[q]
            /\ RoomFound' => UNCHANGED RoomContent
      /\ \A r \in DOMAIN gameRooms' :
            gameRooms'[r].lastActivity >= gameRooms[r].lastActivity
      /\ RoomFound /\ reply' # reply /\ reply'.op \in RoomIntents
           /\ reply'.error = "none"
           => RoomFound' /\ gameRooms'[RoomId].lastActivity = clock'
      /\ ~RoomFound
           => /\ IntentsOnDeletedRoomRejected
              /\ UNCHANGED RoomContent
              /\ reply' # reply => reply'.error \in {"Room not found", "none"}
              /\ reply' # reply /\ reply'.error = "none" => reply'.op = "disconnect"
    ]_vars

\* the room was deleted while the other room, stamped by a later intent,
\* stayed, and an intent that named the deleted room was answered
C30_Witness ==
  /\ ~RoomFound
  /\ OtherRoomId \in DOMAIN gameRooms
  /\ gameRooms[OtherRoomId].lastActivity > 0
  /\ clock - gameRooms[OtherRoomId].lastActivity <= IdleTimeout
  /\ reply.op \in RoomIntents
  /\ reply.error = "Room not found"

(***************************************************************************)
(* C31  The room has exactly one player with isHost = true in every        *)
(* state: the flag is set at the creation of the room, a joining player    *)
(* is added with isHost = false, and no join, reconnection, disconnect,    *)
(* start, roll or move changes the isHost or isAI flag of a player.        *)
(***************************************************************************)
Hosts(players_) == {i \in DOMAIN players_ : players_[i].isHost}

C31_ExactlyOneHostAndFlagsFixed ==
  [][ /\ Cardinality(Hosts(players)) = 1
      /\ Cardinality(Hosts(players')) = 1
      /\ Len(players') >= Len(players)
      /\ \A i \in DOMAIN players :
            /\ players'[i].isHost = players[i].isHost
            /\ players'[i].isAI = players[i].isAI
      /\ \A i \in DOMAIN players' \ DOMAIN players : ~players'[i].isHost ]_vars

\* a player who joined after the creation plays in the started room, and the
\* host, who disconnected, is still the host
C31_Witness ==
  /\ Len(players) = 2
  /\ players[2].id \in NewPlayerIds
  /\ ~players[2].isHost
  /\ players[1].isHost /\ ~players[1].connected
  /\ roomGameState = "playing"
  /\ reply.op \in {"rollDice", "movePiece"}
  /\ reply.error = "none"

(***************************************************************************)
(* C32  executeMove, handleDiceRoll, handlePieceMove,                      *)
(* updatePlayerConnection and abandonGame leave the game state they were   *)
(* given as it was (players, pieces, moveHistory, currentTurn, phase,      *)
(* pending roll), and the state executeMove returns differs from the       *)
(* state given only in the moved piece and the captured pieces.            *)
(***************************************************************************)
ExecuteMoveTouchesOnlyMovedAndCut(before, after, moved, cut) ==
  /\ [after EXCEPT !.pieces = before.pieces] = before
  /\ \A i \in DOMAIN before.pieces :
        after.pieces[i] # before.pieces[i]
          => PieceId(before.pieces[i]) \in {moved} \cup cut

C32_CallsLeaveInputUnchanged ==
  [][ /\ result'.input = game
      /\ result'.op = "executeMove" /\ result'.error = "none"
           => \E playerId \in FnPlayerIds, pieceId \in GsmPieceIds, steps \in Dice :
                 /\ executeMoveError(game, playerId, pieceId, steps) = "none"
                 /\ game' = executeMove(game, playerId, pieceId, steps).gameState
                 /\ ExecuteMoveTouchesOnlyMovedAndCut(
                      game, game', pieceId,
                      executeMove(game, playerId, pieceId, steps).cutPieces) ]_vars

(***************************************************************************)
(* C33  A win can be reached by legal moves: a piece whose roll takes it   *)
(* exactly onto the terminal cell may move there (it is among the valid    *)
(* moves) also while other pieces of its colour already rest on that cell, *)
(* so that all four pieces of a player can be brought onto it.             *)
(***************************************************************************)
ReachesTerminalCell(piece, diceValue) ==
  /\ piece.position # HOME_POSITION
  /\ piece.position # FINISH_END
  /\ getNextPosition(piece.position, diceValue, piece.playerColor) = FINISH_END

C33_PieceMayJoinOthersOnTerminalCell ==
  \A i \in DOMAIN game.pieces, diceValue \in Dice :
     ReachesTerminalCell(game.pieces[i], diceValue)
       => /\ isValidMove(game.pieces[i], diceValue, game, game.pieces[i].playerColor)
          /\ \E move \in getValidMoves(game, game.pieces[i].playerId, diceValue) :
                move.pieceId = PieceId(game.pieces[i])

(***************************************************************************)
(* C34  After the disconnect of a connection no player of the room is      *)
(* attached to it any more (connected with that connection's socketId),    *)
(* also when the connection sent several joinRoom intents for different    *)
(* identities; so a joinRoom from another connection for any identity the  *)
(* closed connection had joined as is accepted.                            *)
(***************************************************************************)
AttachedTo(players_, s) ==
  {i \in DOMAIN players_ : players_[i].connected /\ players_[i].socketId = s}

C34_DisconnectDetachesEveryIdentity ==
  [][ \A s \in Sockets :
        Disconnect(s) =>
          /\ AttachedTo(players', s) = {}
          /\ \A i \in AttachedTo(players, s), t \in Sockets \ {s} :
                JoinRoomError(t, players[i].id)' = "none" ]_vars

(***************************************************************************)
(* C35  An intent acts only for the player attached to the connection      *)
(* that sends it: an accepted startGame comes from the connection the      *)
(* host is attached to, and an accepted rollDice or movePiece for a human  *)
(* player comes from the open connection that player is attached to, so    *)
(* it is rejected when no open connection is attached to the player.       *)
(***************************************************************************)
OpenConnectionsOf(player) ==
  {s \in Sockets : sockets[s].open /\ player.connected /\ player.socketId = s}

C35_IntentsOnlyFromAttachedConnection ==
  [][ /\ \A s \in Sockets :
            StartGame(s) /\ reply'.error = "none"
              => \E i \in DOMAIN players :
                    players[i].isHost /\ s \in OpenConnectionsOf(players[i])
      /\ reply'.op \in {"rollDice", "movePiece"} /\ reply'.error = "none"
           /\ ~players[gameStateData.currentTurn + 1].isAI
           => OpenConnectionsOf(players[gameStateData.currentTurn + 1]) # {} ]_vars

(***************************************************************************)
(* C36  AI turns make progress: whenever, in a playing room, the turn is   *)
(* an AI player's, the room eventually rolls and moves (or forfeits) for   *)
(* it without any intent of a client, so that after a human's move has     *)
(* passed the turn to an AI player the turn eventually is a human          *)
(* player's again.                                                         *)
(***************************************************************************)
TurnOfAI ==
  /\ RoomFound
  /\ roomGameState = "playing"
  /\ players[gameStateData.currentTurn + 1].isAI

TurnOfHuman ==
  /\ RoomFound
  /\ roomGameState = "playing"
  /\ ~players[gameStateData.currentTurn + 1].isAI

\* the host's move has passed the turn to the AI player
PassedToAI ==
  /\ TurnOfAI
  /\ reply = [op |-> "movePiece", error |-> "none"]

C36_AITurnsMakeProgress == PassedToAI ~> TurnOfHuman

(***************************************************************************)
(* C37  After an accepted move every piece is at Home (-1), on a cell      *)
(* 0..51 of the shared path or on a cell 52..57 of the home stretch; a     *)
(* piece in the home stretch moves only by a roll with position + roll     *)
(* <= 57; a piece on the shared path is at most 50 steps from its start    *)
(* cell, and a roll that reaches or crosses its colour's entry cell puts   *)
(* it on the home-stretch cell 52 + (steps + roll - 51), never on a        *)
(* second lap.                                                             *)
(***************************************************************************)
StepsFromStart(position, playerColor) ==
  (position - PLAYER_START_POSITIONS[playerColor] + BOARD_SIZE) % BOARD_SIZE

OnBoard(position, playerColor) ==
  \/ position = HOME_POSITION
  \/ position \in 0..(BOARD_SIZE - 1) /\ StepsFromStart(position, playerColor) <= 50
  \/ position \in FINISH_START..FINISH_END

MoveStaysOnLap(before, after, roll, playerColor) ==
  IF before = HOME_POSITION
  THEN after = PLAYER_START_POSITIONS[playerColor]
  ELSE IF before >= FINISH_START
  THEN after = before + roll /\ after <= FINISH_END
  ELSE IF StepsFromStart(before, playerColor) + roll >= 51
  THEN after = FINISH_START + (StepsFromStart(before, playerColor) + roll - 51)
  ELSE /\ after \in 0..(BOARD_SIZE - 1)
       /\ StepsFromStart(after, playerColor) = StepsFromStart(before, playerColor) + roll

C37_PositionsInRangeAndNoSecondLap ==
  [][ reply' = [op |-> "movePiece", error |-> "none"]
        => \A i \in DOMAIN gameStateData.pieces :
              LET before == gameStateData.pieces[i]
                  after  == gameStateData'.pieces[i]
              IN /\ OnBoard(after.position, after.playerColor)
                 /\ after.position # before.position
                      => MoveStaysOnLap(before.position, after.position,
                                        gameStateData.lastDiceRoll.value,
                                        before.playerColor) ]_vars

(***************************************************************************)
(* C38  After any sequence of legal moves applied by executeMove no cell   *)
(* of the shared path that is not a safe cell holds pieces of two colours: *)
(* a move onto such a cell sends every piece of another colour that        *)
(* stands on it Home in the same step.  Safe cells may hold several        *)
(* colours.                                                                *)
(***************************************************************************)
UnsafeSharedCells == {c \in 0..(BOARD_SIZE - 1) : ~isSafePosition(c)}

OneColourPerUnsafeCell(pieces_) ==
  \A i, j \in DOMAIN pieces_ :
     pieces_[i].position = pieces_[j].position /\ pieces_[i].position \in UnsafeSharedCells
       => pieces_[i].playerColor = pieces_[j].playerColor

C38_NoTwoColoursOnUnsafeCell ==
  /\ OneColourPerUnsafeCell(game.pieces)
  /\ result.op \in {"handlePieceMove", "handleAIPlayerTurn"} /\ result.error = "none"
       => \A j \in DOMAIN game.pieces :
             PieceId(game.pieces[j]) \in result.cutPieces
               => game.pieces[j].position = HOME_POSITION

\* a move has just landed on a cell that is not safe and sent the piece of
\* the other colour that stood there Home
C38_Witness ==
  /\ result.op \in {"handlePieceMove", "handleAIPlayerTurn"}
  /\ result.error = "none"
  /\ result.cutPieces # {}
  /\ LET k == PieceIndexById(game.pieces, result.pieceId)
     IN /\ game.pieces[k].position \in UnsafeSharedCells
        /\ \A j \in DOMAIN game.pieces :
              PieceId(game.pieces[j]) \in result.cutPieces
                => game.pieces[j].position = HOME_POSITION

(***************************************************************************)
(* C39  The piece_move entry an accepted move appends to moveHistory has   *)
(* fromPosition equal to the position of the piece before the move and     *)
(* toPosition equal to its position after the move, so the two differ in   *)
(* every entry.                                                            *)
(***************************************************************************)
C39_PieceMoveEntryHoldsFromAndTo ==
  [][ result'.op = "handlePieceMove" /\ result'.error = "none"
        => LET entry  == game'.moveHistory[Len(game.moveHistory) + 1]
               before == game.pieces[PieceIndexById(game.pieces, entry.pieceId)]
               after  == game'.pieces[PieceIndexById(game'.pieces, entry.pieceId)]
           IN /\ entry.type = "piece_move"
              /\ entry.fromPosition = before.position
              /\ entry.toPosition = after.position
              /\ entry.fromPosition # entry.toPosition ]_vars

=============================================================================
